---- MODULE Spec2Model ----
(***************************************************************************)
(* TGSPDCL scraping backend: the orchestrator (runAutomation, its watchdog *)
(* and its triggers) and the job runner (processCircleCode) of             *)
(* server_fixed.js, with the two older pipelines kept in server.js.        *)
(*                                                                         *)
(* Node runs every callback to its next await without interruption, so an  *)
(* action is the code between two awaits of one invocation, or one timer   *)
(* or trigger callback.                                                    *)
(***************************************************************************)
EXTENDS Integers, Sequences, FiniteSets

\* ------------------------------------------------------------------ bounds
\* invocations of runAutomation that are running, or whose watchdog still has
\* a callback pending, at the same time
MaxSlots == 2
\* rows the circle_codes table ever holds
NumJobs == 2

\* ------------------------------------------------------- program constants
\* MAX_RUN_MS (20 minutes) and the 5000 ms grace delay, in clock ticks of the
\* model: only their order and the order of expiry matter
MAX_RUN_TICKS == 1
GRACE_TICKS == 1
\* BATCH_SIZE (numbers per sub-batch) of the orchestrated runs: two sub-batches
\* for a job of SAMPLE_DIGITS digits
BATCH_SIZE == 500
\* digits_in_service_code of the rows the schema script inserts
SAMPLE_DIGITS == 3

Slots == 1..MaxSlots
Jobs == 1..NumJobs
AgeCap == MAX_RUN_TICKS + GRACE_TICKS + 1

VARIABLES
    isProcessing,    \* let isProcessing
    abortRequested,  \* global.__automationAbortRequested
    watchdogTimer,   \* let watchdogTimer: the slot whose timer the handle names, 0 = null
    status,          \* circle_codes.status by id; "NONE" = row not inserted yet
    pc,              \* where each invocation of runAutomation is suspended
    pending,         \* its const pending
    pos,             \* position of the for-of loop in pending
    b,               \* loop variable b of processCircleCode
    timer,           \* the watchdog setTimeout of each invocation and its nested one
    age,             \* ticks since the invocation set isProcessing = true
    lastCallBusy,    \* what the latest call of runAutomation read at `if (isProcessing)`
    \* one call of processCircleCode, lookup by lookup
    variant,         \* which pipeline runs: "fixed" (server_fixed.js), "v1", "v2" (server.js)
    digits,          \* digitsInServiceCode
    envStart,        \* process.env.START_INDEX: set to an integer, or not set
    envEnd,          \* process.env.END_INDEX
    batchSize,       \* BATCH_SIZE
    rpc,             \* where the call is suspended
    startIndex,
    endIndex,
    rb,              \* loop variable b (server_fixed.js), i (server.js)
    rk,              \* loop variable k
    visited,         \* <<number, serviceNumber>> of every lookup started, in order
    \* one call of fetchServiceDetails or fetchBillAmount, await by await
    fcall,           \* the function called: "details" or "bill"; "none" outside a call
    fpc,             \* where the call is suspended
    fattempt,        \* loop variable i of safeGoto / attempt of the evaluate loop
    navigation,      \* the first navigation of the call: page.goto calls issued, delays awaited, outcome
    serviceNumber,   \* argument serviceNumber, as its characters
    ukscno,          \* argument ukscno of fetchBillAmount
    failed,          \* the steps of the call that raised an error or timed out
    pageOps,         \* page operations the call has issued
    doc,             \* rows of the result page seen by page.evaluate
    parsed,          \* the value returned came from page.evaluate
    details,         \* value fetchServiceDetails resolved with
    billDoc,         \* rows of the bill page seen by page.evaluate
    bill,            \* value fetchBillAmount resolved with
    \* one call of processCircleCode, task by task
    workers,         \* workerPages.length
    saveOnlySuccess, \* SAVE_ONLY_SUCCESS
    batchSaveSize,   \* BATCH_SAVE_SIZE
    found,           \* the numbers the site has a service for
    inflight,        \* numbers whose lookup has started and not finished
    buffer,          \* resultsBuffer
    flushing,        \* the rows passed to the insert that is awaited
    flushKind,       \* that insert is the "periodic" or the "final" flush of a sub-batch
    attempt,         \* loop variable attempt of batchInsertToSupabase
    insertCall,      \* the latest call of batchInsertToSupabase: inserts issued, delays awaited, value returned
    rowlog,          \* what became of the row of each number
    dropped,         \* numbers of the latest batch that failed on all its attempts
    processedCount,  \* let processedCount (server.js)
    successCount,    \* let successCount (server.js)
    savedCount,      \* let savedCount (server.js)
    inserted,        \* rows the storage insert of server.js has stored, counted
    processedSinceReset, \* worker.processedSinceReset of each worker page
    pageClosed,      \* the workers whose page was closed and not replaced
    workerPage,      \* worker.page of each worker: the page it holds, by number
    chunkPage,       \* const page of the tasks of the chunk: worker.page when they started
    openPages,       \* the pages opened by browser.newPage() and not closed
    swapping,        \* <<task, page>> of the tasks replacing a page; page 0: newPage() awaited
    pageFault,       \* the page-level failure met by the latest item, "none" if none
    abortSeen        \* the abort flag was set during this call

orchVars == <<isProcessing, watchdogTimer, status, pc, pending, pos, b, timer,
              age, lastCallBusy>>
runVars == <<variant, digits, envStart, envEnd, batchSize, rpc, startIndex,
             endIndex, rb, rk, visited>>
fetchVars == <<fcall, fpc, fattempt, navigation, serviceNumber, ukscno, failed, pageOps, doc,
               parsed, details, billDoc, bill>>
jobVars == <<workers, saveOnlySuccess, batchSaveSize, found, inflight, buffer,
             flushing, flushKind, attempt, insertCall, rowlog, dropped,
             processedCount, successCount, savedCount, inserted,
             processedSinceReset, pageClosed, workerPage, chunkPage, openPages,
             swapping, pageFault, abortSeen>>
extVars == <<fetchVars, jobVars>>
vars == <<abortRequested, orchVars, runVars, extVars>>

\* an environment variable that is not set
Unset == [set |-> FALSE, val |-> 0]

TimerPending(c) == timer[c] \in {"armed", "grace"}
Active(c) == pc[c] # "idle"
SlotFree(c) == pc[c] = "idle" /\ ~TimerPending(c)

Min2(x, y) == IF x <= y THEN x ELSE y
Max2(x, y) == IF x >= y THEN x ELSE y

RECURSIVE Pow10(_)
Pow10(d) == IF d = 0 THEN 1 ELSE 10 * Pow10(d - 1)

\* indices.length of a run without START_INDEX / END_INDEX
RangeLen(j) == Pow10(digits)

\* .select('*').eq('status','PENDING').order('id', {ascending: true})
RECURSIVE PendingFrom(_)
PendingFrom(j) ==
    IF j > NumJobs THEN <<>>
    ELSE (IF status[j] = "PENDING" THEN <<j>> ELSE <<>>) \o PendingFrom(j + 1)

\* the string 'Not Found'; JavaScript strings are sequences of characters
NotFound == <<"N", "o", "t", " ", "F", "o", "u", "n", "d">>

\* no value resolved yet
NoDetails ==
    [serviceNo |-> <<>>, uniqueServiceNo |-> <<>>, customerName |-> <<>>,
     address |-> <<>>, ero |-> <<>>, mobile |-> <<>>, status |-> "none"]

\* no navigation issued
NoNavigation == [calls |-> 0, waits |-> <<>>, result |-> "none"]

\* no call of fetchServiceDetails or fetchBillAmount is being followed
FetchIdle ==
    /\ fcall = "none"
    /\ fpc = "none"
    /\ fattempt = 0
    /\ navigation = NoNavigation
    /\ serviceNumber = <<>>
    /\ ukscno = <<>>
    /\ failed = {}
    /\ pageOps = 0
    /\ doc = <<>>
    /\ parsed = FALSE
    /\ details = NoDetails
    /\ billDoc = <<>>
    /\ bill = <<>>

\* batchInsertToSupabase has not been called
NoInsert == [calls |-> 0, waits |-> <<>>, result |-> "none"]

\* no call of processCircleCode is being followed task by task
JobIdle ==
    /\ workers = 0
    /\ saveOnlySuccess = TRUE
    /\ batchSaveSize = 0
    /\ found = {}
    /\ inflight = {}
    /\ buffer = <<>>
    /\ flushing = <<>>
    /\ flushKind = "none"
    /\ attempt = 0
    /\ insertCall = NoInsert
    /\ rowlog = <<>>
    /\ dropped = {}
    /\ processedCount = 0
    /\ successCount = 0
    /\ savedCount = 0
    /\ inserted = 0
    /\ processedSinceReset = <<>>
    /\ pageClosed = {}
    /\ workerPage = <<>>
    /\ chunkPage = <<>>
    /\ openPages = {}
    /\ swapping = {}
    /\ pageFault = "none"
    /\ abortSeen = FALSE

Init ==
    /\ isProcessing = FALSE
    /\ abortRequested = FALSE
    /\ watchdogTimer = 0
    /\ status = [j \in Jobs |-> "NONE"]
    /\ pc = [c \in Slots |-> "idle"]
    /\ pending = [c \in Slots |-> <<>>]
    /\ pos = [c \in Slots |-> 0]
    /\ b = [c \in Slots |-> 0]
    /\ timer = [c \in Slots |-> "none"]
    /\ age = [c \in Slots |-> 0]
    /\ lastCallBusy = FALSE
    /\ variant = "fixed"
    /\ digits = SAMPLE_DIGITS
    /\ envStart = Unset
    /\ envEnd = Unset
    /\ batchSize = BATCH_SIZE
    /\ rpc = "none"
    /\ startIndex = 0
    /\ endIndex = 0
    /\ rb = 0
    /\ rk = 0
    /\ visited = <<>>
    /\ FetchIdle
    /\ JobIdle

\* An operator inserts the next row (BIGSERIAL id, status DEFAULT 'PENDING').
InsertJob(j) ==
    /\ status[j] = "NONE"
    /\ \A i \in Jobs : i < j => status[i] # "NONE"
    /\ status' = [status EXCEPT ![j] = "PENDING"]
    /\ UNCHANGED <<isProcessing, abortRequested, watchdogTimer, pc, pending, pos,
                   b, timer, age, lastCallBusy, runVars, extVars>>

\* updateCircleCodeStatus(id, s): the update takes effect, or the storage call
\* fails and the function logs and returns false (ok = FALSE).
UpdateCircleCodeStatus(id, s, ok) ==
    IF ok THEN [status EXCEPT ![id] = s] ELSE status

\* clearTimeout(watchdogTimer) as seen by timer t: only a timer that has not
\* fired yet and that the shared handle names is cancelled.
ClearTimeoutOf(t) ==
    IF t = watchdogTimer /\ timer[t] = "armed" THEN "cleared" ELSE timer[t]

\* the finally block of runAutomation, run by invocation c
Finally(c) ==
    /\ timer' = [t \in Slots |->
                   IF t = c /\ ClearTimeoutOf(t) \in {"fired", "cleared"}
                   THEN "none"
                   ELSE ClearTimeoutOf(t)]
    /\ isProcessing' = FALSE
    /\ abortRequested' = FALSE
    /\ pc' = [pc EXCEPT ![c] = "idle"]
    /\ pending' = [pending EXCEPT ![c] = <<>>]
    /\ pos' = [pos EXCEPT ![c] = 0]
    /\ b' = [b EXCEPT ![c] = 0]
    /\ age' = [age EXCEPT ![c] =
                 IF ClearTimeoutOf(c) \in {"armed", "grace"} THEN @ ELSE 0]
    /\ UNCHANGED watchdogTimer

\* top of `for (const p of pending)` at position p of list l: the loop ends,
\* breaks on the abort flag, or calls updateCircleCodeStatus(p.id,'PROCESSING')
LoopHead(c, l, p) ==
    IF p > Len(l) \/ abortRequested
    THEN Finally(c)
    ELSE /\ pc' = [pc EXCEPT ![c] = "markProcessing"]
         /\ pending' = [pending EXCEPT ![c] = l]
         /\ pos' = [pos EXCEPT ![c] = p]
         /\ b' = [b EXCEPT ![c] = 0]
         /\ UNCHANGED <<isProcessing, abortRequested, watchdogTimer, timer, age>>

\* runAutomation without its `if (isProcessing) return` guard
RunAutomationNoGuard ==
    /\ lastCallBusy' = isProcessing
    /\ \E c \in Slots :
         /\ SlotFree(c)
         /\ \A c2 \in Slots : c2 < c => ~SlotFree(c2)
         /\ isProcessing' = TRUE
         /\ abortRequested' = FALSE
         /\ watchdogTimer' = c
         /\ timer' = [timer EXCEPT ![c] = "armed"]
         /\ pc' = [pc EXCEPT ![c] = "getPending"]
         /\ age' = [age EXCEPT ![c] = 0]
         /\ UNCHANGED <<status, pending, pos, b>>
    /\ UNCHANGED <<runVars, extVars>>

\* runAutomation() up to its first await
RunAutomation ==
    /\ lastCallBusy' = isProcessing
    /\ IF isProcessing
       THEN UNCHANGED <<isProcessing, abortRequested, watchdogTimer, status, pc,
                        pending, pos, b, timer, age>>
       ELSE \E c \in Slots :
              /\ SlotFree(c)
              /\ \A c2 \in Slots : c2 < c => ~SlotFree(c2)
              /\ isProcessing' = TRUE
              /\ abortRequested' = FALSE
              /\ watchdogTimer' = c
              /\ timer' = [timer EXCEPT ![c] = "armed"]
              /\ pc' = [pc EXCEPT ![c] = "getPending"]
              /\ age' = [age EXCEPT ![c] = 0]
              /\ UNCHANGED <<status, pending, pos, b>>
    /\ UNCHANGED <<runVars, extVars>>

\* cron.schedule(..., () => runAutomation())
CronTrigger == RunAutomation

\* app.post('/start-automation'): 409 while isProcessing, else runAutomation()
PostStartAutomation ==
    IF isProcessing THEN UNCHANGED vars ELSE RunAutomation

\* `const pending = await getPendingCircleCodes()` resumes: the rows, or []
\* when the query failed; then the empty-list return or the first loop head
GetPending(c) ==
    /\ pc[c] = "getPending"
    /\ \E ok \in BOOLEAN :
         LoopHead(c, IF ok THEN PendingFrom(1) ELSE <<>>, 1)
    /\ UNCHANGED <<status, lastCallBusy, runVars, extVars>>

\* `await updateCircleCodeStatus(p.id, 'PROCESSING')` resumes; its result is
\* not looked at and processCircleCode is called: await launchBrowser()
MarkProcessing(c) ==
    /\ pc[c] = "markProcessing"
    /\ \E ok \in BOOLEAN :
         status' = UpdateCircleCodeStatus(pending[c][pos[c]], "PROCESSING", ok)
    /\ pc' = [pc EXCEPT ![c] = "launch"]
    /\ UNCHANGED <<isProcessing, abortRequested, watchdogTimer, pending, pos, b,
                   timer, age, lastCallBusy, runVars, extVars>>

\* launchBrowser() and the worker pages: the browser is up and the first
\* sub-batch starts, or puppeteer.launch / browser.newPage throws, the finally
\* closes the browser and the catch of runAutomation calls
\* updateCircleCodeStatus(p.id, 'FAILED')
Launch(c) ==
    /\ pc[c] = "launch"
    /\ \E ok \in BOOLEAN :
         pc' = [pc EXCEPT ![c] = IF ok THEN "batch" ELSE "markFailed"]
    /\ UNCHANGED <<isProcessing, abortRequested, watchdogTimer, status, pending,
                   pos, b, timer, age, lastCallBusy, runVars, extVars>>

\* one pass of `for (let b = 0; b < indices.length; b += BATCH_SIZE)`: the
\* sub-batch is looked up and flushed, then the abort flag is read (break, b
\* stays) or b advances; after the break or at the end of the range
\* processCircleCode returns true and runAutomation calls
\* updateCircleCodeStatus(p.id, 'COMPLETED')
SubBatch(c) ==
    /\ pc[c] = "batch"
    /\ LET nb == b[c] + batchSize
       IN IF abortRequested
          THEN /\ pc' = [pc EXCEPT ![c] = "markCompleted"]
               /\ UNCHANGED b
          ELSE /\ b' = [b EXCEPT ![c] = nb]
               /\ pc' = [pc EXCEPT ![c] =
                           IF nb < RangeLen(pending[c][pos[c]])
                           THEN "batch" ELSE "markCompleted"]
    /\ UNCHANGED <<isProcessing, abortRequested, watchdogTimer, status, pending,
                   pos, timer, age, lastCallBusy, runVars, extVars>>

\* `await updateCircleCodeStatus(p.id, 'COMPLETED')` resumes, next loop pass
MarkCompleted(c) ==
    /\ pc[c] = "markCompleted"
    /\ \E ok \in BOOLEAN :
         status' = UpdateCircleCodeStatus(pending[c][pos[c]], "COMPLETED", ok)
    /\ LoopHead(c, pending[c], pos[c] + 1)
    /\ UNCHANGED <<lastCallBusy, runVars, extVars>>

\* a catch block that marks the job FAILED and rethrows, ending the cycle
MarkFailedRethrow(c) ==
    /\ pc[c] = "markFailed"
    /\ \E ok \in BOOLEAN :
         status' = UpdateCircleCodeStatus(pending[c][pos[c]], "FAILED", ok)
    /\ Finally(c)
    /\ UNCHANGED <<lastCallBusy, runVars, extVars>>

\* `await updateCircleCodeStatus(p.id, 'FAILED')` in the catch resumes, next
\* loop pass
MarkFailed(c) ==
    /\ pc[c] = "markFailed"
    /\ \E ok \in BOOLEAN :
         status' = UpdateCircleCodeStatus(pending[c][pos[c]], "FAILED", ok)
    /\ LoopHead(c, pending[c], pos[c] + 1)
    /\ UNCHANGED <<lastCallBusy, runVars, extVars>>

\* the browser launched by the processCircleCode call of invocation c is open:
\* from `await launchBrowser()` resolving to `browser.close()` in its finally
BrowserOpen(c) == pc[c] = "batch"

\* the callback of setTimeout(..., MAX_RUN_MS)
WatchdogFires(c) ==
    /\ timer[c] = "armed"
    /\ age[c] = MAX_RUN_TICKS
    /\ abortRequested' = TRUE
    /\ timer' = [timer EXCEPT ![c] = "grace"]
    /\ UNCHANGED <<isProcessing, watchdogTimer, status, pc, pending, pos, b, age,
                   lastCallBusy, runVars, extVars>>

\* the callback of the nested setTimeout(..., 5000)
GraceFires(c) ==
    /\ timer[c] = "grace"
    /\ age[c] = MAX_RUN_TICKS + GRACE_TICKS
    /\ isProcessing' = (IF isProcessing THEN FALSE ELSE isProcessing)
    /\ timer' = [timer EXCEPT ![c] = IF Active(c) THEN "fired" ELSE "none"]
    /\ age' = [age EXCEPT ![c] = IF Active(c) THEN @ ELSE 0]
    /\ UNCHANGED <<abortRequested, watchdogTimer, status, pc, pending, pos, b,
                   lastCallBusy, runVars, extVars>>

\* a timer callback is due now
Due(c) ==
    \/ timer[c] = "armed" /\ age[c] = MAX_RUN_TICKS
    \/ timer[c] = "grace" /\ age[c] = MAX_RUN_TICKS + GRACE_TICKS

\* the clock advances by one tick; a callback that is due runs first
Tick ==
    /\ \A c \in Slots : ~Due(c)
    /\ age' = [c \in Slots |->
                 IF Active(c) \/ TimerPending(c)
                 THEN Min2(age[c] + 1, AgeCap)
                 ELSE age[c]]
    /\ UNCHANGED <<isProcessing, abortRequested, watchdogTimer, status, pc,
                   pending, pos, b, timer, lastCallBusy, runVars, extVars>>

Next ==
    \/ \E j \in Jobs : InsertJob(j)
    \/ CronTrigger
    \/ PostStartAutomation
    \/ \E c \in Slots : GetPending(c)
    \/ \E c \in Slots : MarkProcessing(c)
    \/ \E c \in Slots : Launch(c)
    \/ \E c \in Slots : SubBatch(c)
    \/ \E c \in Slots : MarkCompleted(c)
    \/ \E c \in Slots : MarkFailed(c)
    \/ \E c \in Slots : WatchdogFires(c)
    \/ \E c \in Slots : GraceFires(c)
    \/ Tick

Spec == Init /\ [][Next]_vars

\* ----------------------------------------------- processCircleCode, in detail

\* bound on digitsInServiceCode of the runs explored lookup by lookup
MaxDigits == 2

\* Math.pow(10, d) with one more than the largest number of d digits
MaxNumberOffByOne(d) == Pow10(d)

\* const maxNumber = Math.pow(10, digitsInServiceCode) - 1
MaxNumber(d) == Pow10(d) - 1

DigitChar(k) == <<"0", "1", "2", "3", "4", "5", "6", "7", "8", "9">>[k + 1]

\* Number.prototype.toString() of a non-negative integer, as its characters
RECURSIVE ToString(_)
ToString(n) ==
    IF n < 10 THEN <<DigitChar(n)>> ELSE ToString(n \div 10) \o <<DigitChar(n % 10)>>

\* String.prototype.padStart(len, '0')
RECURSIVE PadStart(_, _)
PadStart(str, len) ==
    IF Len(str) >= len THEN str ELSE PadStart(<<"0">> \o str, len)

\* task.num.toString().padStart(digitsInServiceCode, '0')
ServiceNumber(n, d) == PadStart(ToString(n), d)

\* Number.parseInt(process.env.X ?? dflt, 10) for an unset or integer X
ParseEnv(x, dflt) == IF x.set THEN x.val ELSE dflt

\* server_fixed.js: Math.max(0, Math.min(x, maxNumber));
\* server.js (second pipeline): Math.min(Math.max(0, x), maxNumber)
ClampIndex(x, d) == Max2(0, Min2(x, MaxNumber(d)))

\* indices.length: Math.abs(endIndex - startIndex) + 1 pushes
NumIndices ==
    IF startIndex <= endIndex THEN endIndex - startIndex + 1
    ELSE startIndex - endIndex + 1

\* indices[k - 1]: the k-th number pushed by the ascending or descending loop
IndexAt(k) ==
    IF startIndex <= endIndex THEN startIndex + k - 1 ELSE startIndex - k + 1

\* indices.slice(b, b + BATCH_SIZE)
BatchIndices ==
    [n \in 1..(Min2(rb + batchSize, NumIndices) - rb) |-> IndexAt(rb + n)]

\* Math.max(1, Math.min(50, Math.ceil(tasks.length / 6)))
ChunkSize == Max2(1, Min2(50, (Len(BatchIndices) + 5) \div 6))

\* a slice that runs one task into the next chunk
ChunkOverlapping ==
    LET batch == BatchIndices
    IN SubSeq(batch, rk + 1, Min2(rk + ChunkSize + 1, Len(batch)))

\* tasks.slice(k, k + chunkSize), as the numbers of the tasks
Chunk ==
    LET batch == BatchIndices
    IN SubSeq(batch, rk + 1, Min2(rk + ChunkSize, Len(batch)))

\* the loop test of the first (ascending only) and second pipeline of server.js
LoopTest(i) ==
    IF variant = "v1" THEN i <= endIndex
    ELSE IF startIndex <= endIndex THEN i <= endIndex ELSE i >= endIndex

EnvValues(d) ==
    {Unset} \cup {[set |-> TRUE, val |-> v] : v \in {-2, 4, Pow10(d) + 3}}
BatchSizes == {0, 13, 40}

\* where the loop `for (let b = 0; b < indices.length; b += BATCH_SIZE)` of
\* server_fixed.js goes with b = nb and indices.length = len: past its end,
\* into the first chunk of the sub-batch, or, when the slice is empty
\* (BATCH_SIZE 0: no task, no chunk, nothing to flush), to the end of the pass
SubBatchAt(nb, len) ==
    IF ~(nb < len) THEN "returned"
    ELSE IF batchSize = 0 THEN "batchEnd"
    ELSE "chunk"

InitRun ==
    /\ isProcessing = FALSE
    /\ abortRequested = FALSE
    /\ watchdogTimer = 0
    /\ status = [j \in Jobs |-> "NONE"]
    /\ pc = [c \in Slots |-> "idle"]
    /\ pending = [c \in Slots |-> <<>>]
    /\ pos = [c \in Slots |-> 0]
    /\ b = [c \in Slots |-> 0]
    /\ timer = [c \in Slots |-> "none"]
    /\ age = [c \in Slots |-> 0]
    /\ lastCallBusy = FALSE
    /\ variant \in {"fixed", "v1", "v2"}
    /\ digits \in 1..MaxDigits
    /\ envStart \in EnvValues(digits)
    /\ envEnd \in EnvValues(digits)
    /\ batchSize \in (IF variant = "fixed" THEN BatchSizes ELSE {13})
    /\ rpc = "called"
    /\ startIndex = 0
    /\ endIndex = 0
    /\ rb = 0
    /\ rk = 0
    /\ visited = <<>>
    /\ FetchIdle
    /\ JobIdle

\* the range is computed from the environment and the loop is entered
EnterRange ==
    LET s == ParseEnv(envStart, 0)
        e == ParseEnv(envEnd, MaxNumber(digits))
        si == IF variant = "v1" THEN Max2(0, s) ELSE ClampIndex(s, digits)
        ei == IF variant = "v1" THEN Min2(e, MaxNumber(digits))
              ELSE ClampIndex(e, digits)
    IN /\ startIndex' = si
       /\ endIndex' = ei
       /\ rb' = IF variant = "fixed" THEN 0 ELSE si
       /\ rpc' = IF variant = "fixed"
                 THEN SubBatchAt(0, IF si <= ei THEN ei - si + 1 ELSE si - ei + 1)
                 ELSE IF variant = "v1" /\ ~(si <= ei) THEN "returned"
                 ELSE "item"

\* processCircleCode up to its loop: the browser (and, in server_fixed.js, the
\* worker pages) come up or the call throws; then the range is computed
RunStart ==
    /\ rpc = "called"
    /\ \E ok \in BOOLEAN :
         IF ~ok
         THEN /\ rpc' = "threw"
              /\ UNCHANGED <<startIndex, endIndex, rb>>
         ELSE EnterRange
    /\ UNCHANGED <<abortRequested, orchVars, extVars, variant, digits, envStart, envEnd,
                   batchSize, rk, visited>>

\* server_fixed.js: one chunk of the sub-batch: its lookups start in task
\* order, Promise.all settles, then the periodic flush and wait(150)
RunChunk ==
    /\ rpc = "chunk"
    /\ LET chunk == Chunk
       IN visited' = visited \o [n \in 1..Len(chunk) |->
                                   <<chunk[n], ServiceNumber(chunk[n], digits)>>]
    /\ rk' = rk + ChunkSize
    /\ rpc' = IF rk + ChunkSize < Len(BatchIndices) THEN "chunk" ELSE "batchEnd"
    /\ UNCHANGED <<abortRequested, orchVars, extVars, variant, digits, envStart, envEnd,
                   batchSize, startIndex, endIndex, rb>>

\* server_fixed.js: end of a sub-batch: the remaining rows are flushed, the
\* abort flag is read (break), else b += BATCH_SIZE and the loop test
RunBatchEnd ==
    /\ rpc = "batchEnd"
    /\ IF abortRequested
       THEN /\ rpc' = "returned"
            /\ UNCHANGED <<rb, rk>>
       ELSE /\ rb' = rb + batchSize
            /\ rk' = 0
            /\ rpc' = SubBatchAt(rb + batchSize, NumIndices)
    /\ UNCHANGED <<abortRequested, orchVars, extVars, variant, digits, envStart, envEnd,
                   batchSize, startIndex, endIndex, visited>>

\* server.js: one pass of the for loop over i: the number is rendered, the
\* page opened, looked up, saved and closed, the delay awaited, i stepped and
\* the loop test evaluated
RunItem ==
    /\ rpc = "item"
    /\ visited' = Append(visited, <<rb, ServiceNumber(rb, digits)>>)
    /\ LET ni == IF variant = "v1" \/ startIndex <= endIndex THEN rb + 1 ELSE rb - 1
       IN /\ rb' = ni
          /\ rpc' = IF LoopTest(ni) THEN "item" ELSE "returned"
    /\ UNCHANGED <<abortRequested, orchVars, extVars, variant, digits, envStart, envEnd,
                   batchSize, startIndex, endIndex, rk>>

\* the watchdog callback runs while the job run is suspended at an await of
\* the sub-batch (a pass without tasks has none)
RunWatchdog ==
    /\ variant = "fixed"
    /\ rpc \in {"chunk", "batchEnd"}
    /\ Len(BatchIndices) > 0
    /\ ~abortRequested
    /\ abortRequested' = TRUE
    /\ UNCHANGED <<orchVars, runVars, extVars>>

NextRun ==
    \/ RunStart
    \/ RunChunk
    \/ RunBatchEnd
    \/ RunItem
    \/ RunWatchdog

SpecRun == InitRun /\ [][NextRun]_vars

\* every await of the run settles: a step of the run that is possible is taken
SpecRunLive ==
    SpecRun /\ WF_vars(RunStart \/ RunChunk \/ RunBatchEnd \/ RunItem)

\* --------------------------------------------------------------- the extractor

\* rows of the page that page.evaluate looks at
MaxRows == 2

\* circle_code of the first row the schema script inserts
SAMPLE_CIRCLE == <<"1", "2", "1", "3">>

\* `${circleCode} ${serviceNumber}`
InputValue(circleCode, sn) == circleCode \o <<" ">> \o sn

\* the lookup key of the call being followed
Key == InputValue(SAMPLE_CIRCLE, serviceNumber)

\* String.prototype.trim()
RECURSIVE TrimStart(_)
TrimStart(str) ==
    IF str # <<>> /\ Head(str) = " " THEN TrimStart(Tail(str)) ELSE str
RECURSIVE TrimEnd(_)
TrimEnd(str) ==
    IF str # <<>> /\ str[Len(str)] = " "
    THEN TrimEnd(SubSeq(str, 1, Len(str) - 1)) ELSE str
Trim(str) == TrimEnd(TrimStart(str))

\* JavaScript `str || dflt`
OrDefault(str, dflt) == IF str = <<>> THEN dflt ELSE str

\* a <tr> of the result page: n <td> cells; cell k reads letter-k, with blanks
\* around it in the rows lettered b, and cell `hole` holds only a blank
RowKinds ==
    { [n |-> n, letter |-> l, hole |-> h] :
        n \in {5, 6}, l \in {"a", "b"}, h \in {0, 1, 2} }

\* cells[k - 1].textContent
TextContent(row, k) ==
    IF k = row.hole THEN <<" ">>
    ELSE IF row.letter = "b" THEN <<" ", "b", DigitChar(k), " ">>
    ELSE <<"a", DigitChar(k)>>

\* document.querySelectorAll('table tr') of the pages the site may serve; the
\* page without a table has no rows
Pages == UNION { [1..m -> RowKinds] : m \in 0..MaxRows }

\* position of the first row with cells.length >= 6, 0 when there is none
RECURSIVE FirstRowFrom(_, _)
FirstRowFrom(page, i) ==
    IF i > Len(page) THEN 0
    ELSE IF page[i].n >= 6 THEN i
    ELSE FirstRowFrom(page, i + 1)

\* the object built from the cells of the result row
RowDetails(row) ==
    [serviceNo |-> OrDefault(Trim(TextContent(row, 1)), <<>>),
     uniqueServiceNo |-> OrDefault(Trim(TextContent(row, 2)), NotFound),
     customerName |-> OrDefault(Trim(TextContent(row, 3)), NotFound),
     address |-> OrDefault(Trim(TextContent(row, 4)), NotFound),
     ero |-> OrDefault(Trim(TextContent(row, 5)), NotFound),
     mobile |-> OrDefault(Trim(TextContent(row, 6)), NotFound),
     status |-> "Success"]

\* defaultRes / details before the loop over the rows
DefaultDetails ==
    [serviceNo |-> IF variant = "v1" THEN NotFound ELSE <<>>,
     uniqueServiceNo |-> NotFound, customerName |-> NotFound,
     address |-> NotFound, ero |-> NotFound, mobile |-> NotFound,
     status |-> "Failed"]

\* the function passed to page.evaluate
EvaluateDetails(page) ==
    LET r == FirstRowFrom(page, 1)
    IN IF r = 0 THEN DefaultDetails ELSE RowDetails(page[r])

\* what follows the evaluation: server_fixed.js fills an empty serviceNo, the
\* first pipeline of server.js overwrites serviceNo unless the status is
\* Success, the second pipeline returns the object as it is
Normalise(d, key) ==
    IF variant = "fixed"
    THEN (IF d.serviceNo = <<>> THEN [d EXCEPT !.serviceNo = key] ELSE d)
    ELSE IF variant = "v1"
    THEN (IF d.status # "Success" THEN [d EXCEPT !.serviceNo = key] ELSE d)
    ELSE d

\* a catch block that reports the failure without the lookup key
FailedDetailsNoKey(key) ==
    [serviceNo |-> <<>>, uniqueServiceNo |-> NotFound, customerName |-> NotFound,
     address |-> NotFound, ero |-> NotFound, mobile |-> NotFound,
     status |-> "Failed"]

\* the object returned by the catch block (and, in the second pipeline of
\* server.js, when page.evaluate raised twice)
FailedDetails(key) ==
    [serviceNo |-> key, uniqueServiceNo |-> NotFound, customerName |-> NotFound,
     address |-> NotFound, ero |-> NotFound, mobile |-> NotFound,
     status |-> "Failed"]

\* an error raised by the steps named reaches the catch block
Caught(steps) ==
    /\ failed' = failed \cup steps
    /\ details' = FailedDetails(Key)
    /\ fpc' = "returned"
    /\ fattempt' = 0

\* a retry loop that goes on to the next attempt at once
GotoBackoffNone(i) == 0

\* wait(waitBetween * (i + 1)) in the catch of safeGoto, waitBetween 1500
GotoBackoff(i) == 1500 * (i + 1)

\* the page.goto of safeGoto resolved: safeGoto returns true
NavigationDone == [navigation EXCEPT !.result = "true"]

\* it rejected and attempts are left: the wait, then the next page.goto
NavigationRetry ==
    [navigation EXCEPT !.calls = @ + 1,
                       !.waits = Append(@, GotoBackoff(fattempt))]

\* it rejected on the last attempt: the error is thrown to the caller
NavigationThrew == [navigation EXCEPT !.result = "threw"]

\* safeGoto (server_fixed.js: up to 3 attempts) or page.goto (server.js)
FetchGoto ==
    /\ fcall = "details"
    /\ fpc = "goto"
    /\ \E ok \in BOOLEAN :
         IF ok
         THEN /\ fpc' = "input"
              /\ fattempt' = 0
              /\ navigation' = NavigationDone
              /\ UNCHANGED <<failed, details>>
         ELSE IF variant = "fixed" /\ fattempt < 2
         THEN /\ fattempt' = fattempt + 1
              /\ failed' = failed \cup {"goto"}
              /\ navigation' = NavigationRetry
              /\ UNCHANGED <<fpc, details>>
         ELSE /\ Caught({"goto", "gotoAll"})
              /\ navigation' = NavigationThrew
    /\ pageOps' = IF fpc' = "returned" THEN pageOps ELSE pageOps + 1
    /\ UNCHANGED <<abortRequested, orchVars, runVars, jobVars, fcall, serviceNumber, ukscno,
                   doc, parsed, billDoc, bill>>

\* waitForSelector('#ukscno') and page.type on it; when they raise,
\* server_fixed.js goes on to the generic input and server.js to the catch
FetchInput ==
    /\ fcall = "details"
    /\ fpc = "input"
    /\ \E typed \in BOOLEAN :
         IF typed
         THEN /\ fpc' = "submit"
              /\ UNCHANGED <<failed, details, fattempt>>
         ELSE IF variant = "fixed"
         THEN /\ fpc' = "fallback"
              /\ failed' = failed \cup {"primaryInput"}
              /\ UNCHANGED <<details, fattempt>>
         ELSE Caught({"primaryInput", "input"})
    /\ pageOps' = IF fpc' = "returned" THEN pageOps ELSE pageOps + 1
    /\ UNCHANGED <<abortRequested, orchVars, runVars, jobVars, fcall, navigation, serviceNumber, ukscno,
                   doc, parsed, billDoc, bill>>

\* server_fixed.js: page.$("input[type='text']"): an input that is clicked and
\* typed into, no input (nothing is typed), or an error
FetchFallback ==
    /\ fcall = "details"
    /\ fpc = "fallback"
    /\ \E r \in {"typed", "absent", "raised"} :
         IF r = "raised"
         THEN Caught({"input"})
         ELSE /\ fpc' = "submit"
              /\ failed' = IF r = "absent" THEN failed \cup {"nothingTyped"} ELSE failed
              /\ UNCHANGED <<details, fattempt>>
    /\ pageOps' = IF fpc' = "returned" THEN pageOps ELSE pageOps + 1
    /\ UNCHANGED <<abortRequested, orchVars, runVars, jobVars, fcall, navigation, serviceNumber, ukscno,
                   doc, parsed, billDoc, bill>>

\* page.$x for the button, the click or the Enter key, raced with the wait
\* for a navigation or a table, whose time-out is swallowed
FetchSubmit ==
    /\ fcall = "details"
    /\ fpc = "submit"
    /\ \E r \in {"signal", "timeout", "raised"} :
         IF r = "raised"
         THEN Caught({"submit"})
         ELSE /\ fpc' = "pause"
              /\ failed' = IF r = "timeout" THEN failed \cup {"wait"} ELSE failed
              /\ UNCHANGED <<details, fattempt>>
    /\ pageOps' = IF fpc' = "returned" THEN pageOps ELSE pageOps + 1
    /\ UNCHANGED <<abortRequested, orchVars, runVars, jobVars, fcall, navigation, serviceNumber, ukscno,
                   doc, parsed, billDoc, bill>>

\* server_fixed.js: page.waitForTimeout(500), not guarded; server.js: a wait
\* for the table whose time-out is swallowed
FetchPause ==
    /\ fcall = "details"
    /\ fpc = "pause"
    /\ \E ok \in BOOLEAN :
         IF ok
         THEN /\ fpc' = "evaluate"
              /\ UNCHANGED <<failed, details, fattempt>>
         ELSE IF variant = "fixed"
         THEN Caught({"pause"})
         ELSE /\ fpc' = "evaluate"
              /\ failed' = failed \cup {"wait"}
              /\ UNCHANGED <<details, fattempt>>
    /\ pageOps' = IF fpc' = "returned" THEN pageOps ELSE pageOps + 1
    /\ UNCHANGED <<abortRequested, orchVars, runVars, jobVars, fcall, navigation, serviceNumber, ukscno,
                   doc, parsed, billDoc, bill>>

\* page.evaluate on the page the site served; when it raises, the second
\* pipeline of server.js tries once more and then takes the Failed object
FetchEvaluate ==
    /\ fcall = "details"
    /\ fpc = "evaluate"
    /\ \/ \E page \in Pages :
            /\ doc' = page
            /\ parsed' = TRUE
            /\ details' = Normalise(EvaluateDetails(page), Key)
            /\ fpc' = "returned"
            /\ fattempt' = 0
            /\ UNCHANGED failed
       \/ /\ IF variant = "v2" /\ fattempt < 1
             THEN /\ fattempt' = fattempt + 1
                  /\ failed' = failed \cup {"evaluate"}
                  /\ UNCHANGED <<fpc, details>>
             ELSE Caught({"evaluate", "evaluateAll"})
          /\ UNCHANGED <<doc, parsed>>
    /\ pageOps' = IF fpc' = "returned" THEN pageOps ELSE pageOps + 1
    /\ UNCHANGED <<abortRequested, orchVars, runVars, jobVars, fcall, navigation, serviceNumber, ukscno,
                   billDoc, bill>>

\* the argument ukscno of the calls followed: 'Not Found', '' and a number
BillInputs == {NotFound, <<>>, <<"U", "1">>}

\* the guard at the head of fetchBillAmount; the second pipeline of server.js
\* tests only for 'Not Found'
BillSkipped(u) ==
    IF variant = "v2" THEN u = NotFound ELSE (u = <<>> \/ u = NotFound)

\* the label cell of a row of the bill page
Labels ==
    {"Current Month Bill", "CURRENT  MONTH  BILL", "Total Amount Payable",
     "Amount Payable", "Due Date"}

\* norm(s).toLowerCase(): runs of white space collapsed, lower case
NormLabel(l) ==
    CASE l = "Current Month Bill" -> "current month bill"
      [] l = "CURRENT  MONTH  BILL" -> "current month bill"
      [] l = "Total Amount Payable" -> "total amount payable"
      [] l = "Amount Payable" -> "amount payable"
      [] OTHER -> "due date"

IsCurrent(l) == NormLabel(l) = "current month bill"
IsTotal(l) == NormLabel(l) = "total amount payable"

\* the row test of each pipeline: server_fixed.js also takes 'amount payable'
LabelMatches(l) ==
    IF variant = "fixed"
    THEN NormLabel(l) \in {"current month bill", "total amount payable", "amount payable"}
    ELSE IsCurrent(l) \/ IsTotal(l)

\* the value cell of a row: empty, a number, or a number after the rupee sign
\* (written R here)
Amounts == { <<>>, <<"1", "2", "0">>, <<"3", "4", "0">>, <<"R", "5", "6", "0">> }

\* the text has a match for [0-9][0-9,]*
Numeric(a) == a # <<>>

\* the text has a match for the rupee sign followed by a number
Rupee(a) == a # <<>> /\ Head(a) = "R"

BillRowKinds == { [label |-> l, amount |-> a] : l \in Labels, a \in Amounts }

BillPages == UNION { [1..m -> BillRowKinds] : m \in 0..MaxRows }

\* the first of a set of row positions, 0 when there is none
FirstFrom(hits) ==
    IF hits = {} THEN 0 ELSE CHOOSE k \in hits : \A m \in hits : k <= m

\* the last resort: the first rupee amount anywhere in the page text
AnyRupee(page) ==
    LET r == FirstFrom({k \in 1..Len(page) : Rupee(page[k].amount)})
    IN IF r = 0 THEN NotFound ELSE page[r].amount

\* server_fixed.js and the first pipeline of server.js: one pass over the
\* rows, the first row with a label and a number gives the value
FirstLabelled(page) ==
    FirstFrom({k \in 1..Len(page) :
                 LabelMatches(page[k].label) /\ Numeric(page[k].amount)})

\* the regular expression handed to findByLabel tested on a label
RegexTest(re, l) == IF re = "current" THEN IsCurrent(l) ELSE IsTotal(l)

\* second pipeline of server.js, findByLabel(regex): the first row whose text
\* matches; the number is taken from that row or from one of the two rows
\* after it; <<>> stands for null
FindByLabel(page, re) ==
    LET i == FirstFrom({k \in 1..Len(page) : RegexTest(re, page[k].label)})
        j == IF i = 0 THEN 0
             ELSE FirstFrom({k \in i..Len(page) : Numeric(page[k].amount)})
    IN IF i = 0 \/ j = 0 \/ j > i + 2 THEN <<>> ELSE page[j].amount

\* the function passed to page.evaluate by fetchBillAmount
EvaluateBill(page) ==
    IF variant = "fixed"
    THEN (IF FirstLabelled(page) # 0 THEN page[FirstLabelled(page)].amount
          ELSE AnyRupee(page))
    ELSE IF variant = "v1"
    THEN (IF FirstLabelled(page) # 0 THEN page[FirstLabelled(page)].amount
          ELSE NotFound)
    ELSE IF FindByLabel(page, "current") # <<>> THEN FindByLabel(page, "current")
    ELSE IF FindByLabel(page, "total") # <<>> THEN FindByLabel(page, "total")
    ELSE AnyRupee(page)

\* an error raised by the steps named reaches the catch block of fetchBillAmount
BillCaught(steps) ==
    /\ failed' = failed \cup steps
    /\ bill' = NotFound
    /\ fpc' = "returned"
    /\ fattempt' = 0

\* fetchBillAmount up to its first await: the guard returns 'Not Found', or the
\* navigation to the bill form is issued
BillStart ==
    /\ fcall = "bill"
    /\ fpc = "called"
    /\ IF BillSkipped(ukscno)
       THEN /\ bill' = NotFound
            /\ fpc' = "returned"
            /\ navigation' = NoNavigation
            /\ UNCHANGED pageOps
       ELSE /\ fpc' = "goto"
            /\ pageOps' = pageOps + 1
            /\ navigation' = [calls |-> 1, waits |-> <<>>, result |-> "pending"]
            /\ UNCHANGED bill
    /\ UNCHANGED <<abortRequested, orchVars, runVars, jobVars, fcall, fattempt, serviceNumber,
                   ukscno, failed, doc, parsed, details, billDoc>>

\* the navigation settles (safeGoto of server_fixed.js: up to 3 attempts)
BillGoto ==
    /\ fcall = "bill"
    /\ fpc = "goto"
    /\ \E ok \in BOOLEAN :
         IF ok
         THEN /\ fpc' = "form"
              /\ fattempt' = 0
              /\ navigation' = NavigationDone
              /\ UNCHANGED <<failed, bill>>
         ELSE IF variant = "fixed" /\ fattempt < 2
         THEN /\ fattempt' = fattempt + 1
              /\ failed' = failed \cup {"goto"}
              /\ navigation' = NavigationRetry
              /\ UNCHANGED <<fpc, bill>>
         ELSE /\ BillCaught({"goto", "gotoAll"})
              /\ navigation' = NavigationThrew
    /\ pageOps' = IF fpc' = "returned" THEN pageOps ELSE pageOps + 1
    /\ UNCHANGED <<abortRequested, orchVars, runVars, jobVars, fcall, serviceNumber, ukscno,
                   doc, parsed, details, billDoc>>

\* the input is found and typed into (or the billing page is opened directly)
\* and the form is submitted; any error not swallowed on the way reaches the catch
BillForm ==
    /\ fcall = "bill"
    /\ fpc = "form"
    /\ \E ok \in BOOLEAN :
         IF ok
         THEN /\ fpc' = "evaluate"
              /\ UNCHANGED <<failed, bill, fattempt>>
         ELSE BillCaught({"form"})
    /\ pageOps' = IF fpc' = "returned" THEN pageOps ELSE pageOps + 1
    /\ UNCHANGED <<abortRequested, orchVars, runVars, jobVars, fcall, navigation, serviceNumber, ukscno,
                   doc, parsed, details, billDoc>>

\* page.evaluate on the bill page; when it raises, the second pipeline of
\* server.js tries once more and then returns its initial 'Not Found'
BillEvaluate ==
    /\ fcall = "bill"
    /\ fpc = "evaluate"
    /\ \/ \E page \in BillPages :
            /\ billDoc' = page
            /\ parsed' = TRUE
            /\ bill' = OrDefault(EvaluateBill(page), NotFound)
            /\ fpc' = "returned"
            /\ fattempt' = 0
            /\ UNCHANGED failed
       \/ /\ IF variant = "v2" /\ fattempt < 1
             THEN /\ fattempt' = fattempt + 1
                  /\ failed' = failed \cup {"evaluate"}
                      /\ UNCHANGED <<fpc, bill>>
             ELSE BillCaught({"evaluate", "evaluateAll"})
          /\ UNCHANGED <<billDoc, parsed>>
    /\ pageOps' = IF fpc' = "returned" THEN pageOps ELSE pageOps + 1
    /\ UNCHANGED <<abortRequested, orchVars, runVars, jobVars, fcall, navigation, serviceNumber, ukscno,
                   doc, details>>

\* the caller of the two functions (the task body of server_fixed.js,
\* processService of server.js) with every lookup followed by fetchBillAmount
LookupBillAlways ==
    /\ fcall = "details"
    /\ fpc = "returned"
    /\ fcall' = "bill"
    /\ fpc' = "called"
    /\ ukscno' = details.uniqueServiceNo
    /\ failed' = {}
    /\ pageOps' = 0
    /\ parsed' = FALSE
    /\ UNCHANGED <<abortRequested, orchVars, runVars, jobVars, fattempt, navigation, serviceNumber,
                   doc, details, billDoc, bill>>

\* the caller resumes after `await fetchServiceDetails(...)`:
\* `let billAmount = 'Not Found'`, and fetchBillAmount(page,
\* details.uniqueServiceNo) is called when details.status === 'Success'
LookupBill ==
    /\ fcall = "details"
    /\ fpc = "returned"
    /\ IF details.status = "Success"
       THEN /\ fcall' = "bill"
            /\ fpc' = "called"
            /\ ukscno' = details.uniqueServiceNo
            /\ failed' = {}
            /\ pageOps' = 0
            /\ parsed' = FALSE
            /\ UNCHANGED bill
       ELSE /\ fcall' = "lookup"
            /\ bill' = NotFound
            /\ UNCHANGED <<fpc, ukscno, failed, pageOps, parsed>>
    /\ UNCHANGED <<abortRequested, orchVars, runVars, jobVars, fattempt, navigation, serviceNumber,
                   doc, details, billDoc>>

\* the caller resumes after `await fetchBillAmount(...)` and builds the result
\* from the details and billAmount
LookupResult ==
    /\ fcall = "bill"
    /\ fpc = "returned"
    /\ details.status # "none"
    /\ fcall' = "lookup"
    /\ UNCHANGED <<abortRequested, orchVars, runVars, jobVars, fpc, fattempt,
                   navigation, serviceNumber, ukscno, failed, pageOps, doc, parsed, details,
                   billDoc, bill>>

InitFetch ==
    /\ isProcessing = FALSE
    /\ abortRequested = FALSE
    /\ watchdogTimer = 0
    /\ status = [j \in Jobs |-> "NONE"]
    /\ pc = [c \in Slots |-> "idle"]
    /\ pending = [c \in Slots |-> <<>>]
    /\ pos = [c \in Slots |-> 0]
    /\ b = [c \in Slots |-> 0]
    /\ timer = [c \in Slots |-> "none"]
    /\ age = [c \in Slots |-> 0]
    /\ lastCallBusy = FALSE
    /\ variant \in {"fixed", "v1", "v2"}
    /\ digits \in 1..MaxDigits
    /\ envStart = Unset
    /\ envEnd = Unset
    /\ batchSize = BATCH_SIZE
    /\ rpc = "none"
    /\ startIndex = 0
    /\ endIndex = 0
    /\ rb = 0
    /\ rk = 0
    /\ visited = <<>>
    /\ fcall \in {"details", "bill"}
    /\ fpc = IF fcall = "details" THEN "goto" ELSE "called"
    /\ fattempt = 0
    /\ navigation = IF fcall = "details"
                    THEN [calls |-> 1, waits |-> <<>>, result |-> "pending"]
                    ELSE NoNavigation
    /\ serviceNumber = IF fcall = "details" THEN ServiceNumber(4, digits) ELSE <<>>
    /\ ukscno \in (IF fcall = "bill" THEN BillInputs ELSE {<<>>})
    /\ failed = {}
    /\ pageOps = IF fcall = "details" THEN 1 ELSE 0
    /\ doc = <<>>
    /\ parsed = FALSE
    /\ details = NoDetails
    /\ billDoc = <<>>
    /\ bill = <<>>
    /\ JobIdle

NextFetch ==
    \/ FetchGoto
    \/ FetchInput
    \/ FetchFallback
    \/ FetchSubmit
    \/ FetchPause
    \/ FetchEvaluate
    \/ BillStart
    \/ BillGoto
    \/ BillForm
    \/ BillEvaluate
    \/ LookupBill
    \/ LookupResult

SpecFetch == InitFetch /\ [][NextFetch]_vars

\* ------------------------------------------- processCircleCode, task by task

\* digitsInServiceCode of the runs explored task by task
JobDigits == 1
\* BATCH_SIZE of these runs: a first sub-batch whose chunks hold two tasks, and
\* a second sub-batch
JOB_BATCH_SIZE == 7
\* BATCH_SAVE_SIZE of these runs: reached by the rows of one chunk
BATCH_SAVE_SIZE == 2
\* the settings of BATCH_SAVE_SIZE explored: that one, and one smaller than a
\* chunk
SaveSizes == {1, BATCH_SAVE_SIZE}

\* a retry loop that waits the same 1500 ms after every failed attempt
BackoffFlat(n) == 1500

\* wait(1500 * (attempt + 1)) in the catch of batchInsertToSupabase
Backoff(n) == 1500 * (n + 1)

\* PAGE_RECREATE_INTERVAL of these runs: reached by each worker page
PAGE_RECREATE_INTERVAL == 3

\* task.workerIdx: idx % workerPages.length, idx the position in the sub-batch
WorkerIdx(n) ==
    LET i == CHOOSE k \in 1..Len(BatchIndices) : BatchIndices[k] = n
    IN (i - 1) % workers

\* a save policy that lets every row through
ShouldBufferAll(row) == TRUE

\* `!SAVE_ONLY_SUCCESS || row.fetch_status === 'Success'`; saveToSupabase of
\* server.js tests data.status the same way (its second pipeline also leaves
\* out a Success row whose uniqueServiceNo is 'Not Found'; the rows followed
\* here carry only the status)
ShouldBuffer(row) == ~saveOnlySuccess \/ row.fetch_status = "Success"

\* resultsBuffer.splice(0, n): the rows returned
SpliceTaken(buf, n) == SubSeq(buf, 1, Min2(n, Len(buf)))

\* a slice in place of the splice: the rows stay in the buffer
SpliceRestKeepsAll(buf, n) == buf

\* resultsBuffer.splice(0, n): the rows left in the buffer
SpliceRest(buf, n) == SubSeq(buf, Min2(n, Len(buf)) + 1, Len(buf))

\* a batch that failed is put back in front of the buffer
RequeueDropped(buf, batch) == batch \o buf

\* the buffer after batchInsertToSupabase returned false: the batch is gone
AfterDrop(buf, batch) == buf

Nums(rows) == {rows[i].num : i \in 1..Len(rows)}

\* the rows are handed to an insert
Submit(log, rows) ==
    [n \in DOMAIN log |->
       IF n \in Nums(rows)
       THEN (IF log[n] = "buffered" THEN "submitted" ELSE "resubmitted")
       ELSE log[n]]

\* a lookup gave its row, which is pushed or left out
Produce(log, row) ==
    [log EXCEPT ![row.num] =
       IF @ # "none" THEN "dup"
       ELSE IF ShouldBuffer(row) THEN "buffered" ELSE "discarded"]

\* the call is suspended at an await, where timer and trigger callbacks can run
Suspended == rpc \in {"called", "tasks", "insert", "wait", "item", "close"}

\* batchInsertToSupabase(toSave) is called with the rows taken from the buffer
StartInsert(taken, rest, log, kind) ==
    /\ flushing' = taken
    /\ buffer' = rest
    /\ rowlog' = Submit(log, taken)
    /\ flushKind' = kind
    /\ attempt' = 0
    /\ insertCall' = [calls |-> 1, waits |-> <<>>, result |-> "pending"]
    /\ rpc' = "insert"

\* `if (global.__automationAbortRequested) break`, else b += BATCH_SIZE and the
\* loop test; after the loop the pages are closed and the call returns true
AbortCheck ==
    IF abortRequested
    THEN /\ rpc' = "returned"
         /\ UNCHANGED <<rb, rk>>
    ELSE /\ rb' = rb + batchSize
         /\ rk' = 0
         /\ rpc' = SubBatchAt(rb + batchSize, NumIndices)

\* processCircleCode up to its loop. `await launchBrowser()` rejects and the
\* call throws; or, in server_fixed.js, browser.newPage() rejects while the
\* worker pages are created inside the try, the finally closes the browser and
\* the call throws (setupPage catches its own errors); or the worker pages are
\* open, the range is computed and the loop entered
JobStart ==
    /\ rpc = "called"
    /\ \E r \in {"ok", "noBrowser", "noPage"} :
         /\ IF r = "ok"
            THEN EnterRange
            ELSE /\ rpc' = "threw"
                 /\ UNCHANGED <<startIndex, endIndex, rb>>
         /\ r = "noPage" => variant = "fixed"
         /\ pageFault' = IF r = "noPage" THEN "pool" ELSE "none"
         /\ openPages' = IF r = "ok" /\ variant = "fixed"
                         THEN {workerPage[w] : w \in DOMAIN workerPage}
                         ELSE openPages
    /\ UNCHANGED <<abortRequested, orchVars, fetchVars, variant, digits, envStart,
                   envEnd, batchSize, rk, visited, workers, saveOnlySuccess,
                   batchSaveSize, found, inflight, buffer, flushing, flushKind,
                   attempt, insertCall, rowlog, dropped, processedCount, successCount, savedCount,
                   inserted, processedSinceReset, pageClosed, workerPage,
                   chunkPage, swapping, abortSeen>>

\* chunk.map(async (task) => ...): every task of the chunk runs to its first
\* await, in task order, so all their lookups are started
JobChunk ==
    /\ rpc = "chunk"
    /\ LET chunk == Chunk
       IN /\ visited' = visited \o [n \in 1..Len(chunk) |->
                                      <<chunk[n], ServiceNumber(chunk[n], digits)>>]
          /\ inflight' = {chunk[n] : n \in 1..Len(chunk)}
    /\ chunkPage' = workerPage
    /\ rpc' = "tasks"
    /\ UNCHANGED <<abortRequested, orchVars, fetchVars, variant, digits, envStart,
                   envEnd, batchSize, startIndex, endIndex, rb, rk, workers,
                   saveOnlySuccess, batchSaveSize, found, buffer, flushing,
                   flushKind, attempt, insertCall, rowlog, dropped,
                   processedCount, successCount, savedCount,
                   inserted, processedSinceReset, pageClosed, workerPage,
                   openPages, swapping, pageFault, abortSeen>>

\* `await Promise.all(promises)` resumes: the buffer is flushed if it holds
\* BATCH_SAVE_SIZE rows, else wait(150) is awaited
ChunkDone(buf, log) ==
    IF Len(buf) >= batchSaveSize
    THEN StartInsert(SpliceTaken(buf, batchSaveSize),
                     SpliceRest(buf, batchSaveSize), log, "periodic")
    ELSE /\ buffer' = buf
         /\ rowlog' = log
         /\ rpc' = "wait"
         /\ UNCHANGED <<flushing, flushKind, attempt, insertCall>>

\* the workers whose worker.page is not among the pages o that are open
ClosedWorkers(wp, o) == {w \in DOMAIN wp : wp[w] \notin o}

\* the page browser.newPage() resolves with: one not seen before
NewPage ==
    LET seen == openPages \cup {workerPage[w] : w \in DOMAIN workerPage}
                          \cup {p[2] : p \in swapping}
    IN (CHOOSE m \in seen : \A x \in seen : x <= m) + 1

\* the lookup of number n finishes: its row is built and pushed unless the save
\* policy leaves it out (a page-level failure, or a page that is closed, gives
\* a Failed row) and worker.processedSinceReset is counted. When the count has
\* reached PAGE_RECREATE_INTERVAL the task closes its page and awaits
\* browser.newPage(); otherwise the task is over, and when it was the last of
\* the chunk Promise.all settles
TaskDone(n) ==
    /\ rpc = "tasks"
    /\ n \in inflight
    /\ \E fault \in BOOLEAN :
         LET w == WorkerIdx(n)
             row == [num |-> n,
                     service_number |-> ServiceNumber(n, digits),
                     fetch_status |-> IF n \in found /\ ~fault
                                         /\ chunkPage[w] \in openPages
                                      THEN "Success" ELSE "Failed"]
             buf == IF ShouldBuffer(row) THEN Append(buffer, row) ELSE buffer
             log == Produce(rowlog, row)
             count == processedSinceReset[w] + 1
             due == count >= PAGE_RECREATE_INTERVAL
             last == inflight = {n} /\ swapping = {} /\ ~due
             open == IF due THEN openPages \ {chunkPage[w]} ELSE openPages
         IN /\ processedSinceReset' = [processedSinceReset EXCEPT ![w] = count]
            /\ openPages' = open
            /\ pageClosed' = ClosedWorkers(workerPage, open)
            /\ swapping' = IF due THEN swapping \cup {<<n, 0>>} ELSE swapping
            /\ pageFault' = IF fault THEN "lookup" ELSE "none"
            /\ IF last
               THEN ChunkDone(buf, log)
               ELSE /\ buffer' = buf
                    /\ rowlog' = log
                    /\ UNCHANGED <<rpc, flushing, flushKind, attempt, insertCall>>
    /\ inflight' = inflight \ {n}
    /\ UNCHANGED <<abortRequested, orchVars, fetchVars, variant, digits, envStart,
                   envEnd, batchSize, startIndex, endIndex, rb, rk, visited, workers,
                   saveOnlySuccess, batchSaveSize, found, dropped, processedCount, successCount, savedCount,
                   inserted, workerPage, chunkPage, abortSeen>>

\* the task of number n is over: Promise.all settles when it was the last one
TaskOver(n) ==
    IF inflight = {} /\ \A p \in swapping : p[1] = n
    THEN ChunkDone(buffer, rowlog)
    ELSE UNCHANGED <<rpc, buffer, rowlog, flushing, flushKind, attempt, insertCall>>

\* `const newPage = await browser.newPage()` of the task of number n settles:
\* the new page is open and setupPage(newPage) is awaited, or the call rejects,
\* the catch of the task logs the error and the worker keeps the closed page
PageOpened(n) ==
    /\ rpc = "tasks"
    /\ <<n, 0>> \in swapping
    /\ \E ok \in BOOLEAN :
         IF ok
         THEN /\ openPages' = openPages \cup {NewPage}
              /\ swapping' = (swapping \ {<<n, 0>>}) \cup {<<n, NewPage>>}
              /\ UNCHANGED <<rpc, buffer, rowlog, flushing, flushKind, attempt,
                             insertCall, pageFault>>
         ELSE /\ swapping' = swapping \ {<<n, 0>>}
              /\ pageFault' = "replace"
              /\ TaskOver(n)
              /\ UNCHANGED openPages
    /\ UNCHANGED <<abortRequested, orchVars, fetchVars, variant, digits, envStart,
                   envEnd, batchSize, startIndex, endIndex, rb, rk, visited, workers,
                   saveOnlySuccess, batchSaveSize, found, inflight, dropped,
                   processedCount, successCount, savedCount,
                   inserted, processedSinceReset, pageClosed, workerPage,
                   chunkPage, abortSeen>>

\* `await setupPage(newPage)` of the task of number n resumes:
\* worker.page = newPage, worker.processedSinceReset = 0, and the task is over
PageInstalled(n) ==
    /\ rpc = "tasks"
    /\ \E p \in swapping :
         /\ p[1] = n
         /\ p[2] # 0
         /\ LET w == WorkerIdx(n)
                wp == [workerPage EXCEPT ![w] = p[2]]
            IN /\ workerPage' = wp
               /\ processedSinceReset' = [processedSinceReset EXCEPT ![w] = 0]
               /\ pageClosed' = ClosedWorkers(wp, openPages)
         /\ swapping' = swapping \ {p}
    /\ TaskOver(n)
    /\ UNCHANGED <<abortRequested, orchVars, fetchVars, variant, digits, envStart,
                   envEnd, batchSize, startIndex, endIndex, rb, rk, visited, workers,
                   saveOnlySuccess, batchSaveSize, found, inflight, dropped,
                   processedCount, successCount, savedCount,
                   inserted, chunkPage, openPages, pageFault, abortSeen>>

\* an attempt of batchInsertToSupabase settles: success (true is returned), a
\* failure followed by the wait and the next attempt, or the third failure
\* followed by the wait, after which false is returned and the caller goes on
JobInsert ==
    /\ rpc = "insert"
    /\ \E ok \in BOOLEAN :
         IF ~ok /\ attempt < 2
         THEN /\ attempt' = attempt + 1
              /\ insertCall' = [insertCall EXCEPT
                                  !.calls = @ + 1,
                                  !.waits = Append(@, Backoff(attempt))]
              /\ UNCHANGED <<rpc, rb, rk, buffer, flushing, flushKind, dropped>>
         ELSE /\ attempt' = 0
              /\ insertCall' = [insertCall EXCEPT
                                  !.waits = IF ok THEN @ ELSE Append(@, Backoff(attempt)),
                                  !.result = IF ok THEN "true" ELSE "false"]
              /\ flushing' = <<>>
              /\ flushKind' = "none"
              /\ dropped' = IF ok THEN dropped ELSE Nums(flushing)
              /\ buffer' = IF ok THEN buffer ELSE AfterDrop(buffer, flushing)
              /\ IF flushKind = "periodic"
                 THEN /\ rpc' = "wait"
                      /\ UNCHANGED <<rb, rk>>
                 ELSE AbortCheck
    /\ UNCHANGED <<abortRequested, orchVars, fetchVars, variant, digits, envStart,
                   envEnd, batchSize, startIndex, endIndex, visited, workers,
                   saveOnlySuccess, batchSaveSize, found, inflight, rowlog, processedCount, successCount, savedCount,
                   inserted, processedSinceReset, pageClosed, workerPage,
                   chunkPage, openPages, swapping,
                   pageFault, abortSeen>>

\* wait(150) is over: k += chunkSize and the test of the loop over the chunks
JobWait ==
    /\ rpc = "wait"
    /\ rk' = rk + ChunkSize
    /\ rpc' = IF rk + ChunkSize < Len(BatchIndices) THEN "chunk" ELSE "batchEnd"
    /\ UNCHANGED <<abortRequested, orchVars, fetchVars, jobVars, variant, digits,
                   envStart, envEnd, batchSize, startIndex, endIndex, rb, visited>>

\* an end of sub-batch that leaves the rows in the buffer
JobBatchEndNoFlush ==
    /\ rpc = "batchEnd"
    /\ AbortCheck
    /\ UNCHANGED <<buffer, flushing, flushKind, attempt, insertCall, rowlog>>
    /\ UNCHANGED <<abortRequested, orchVars, fetchVars, variant, digits, envStart,
                   envEnd, batchSize, startIndex, endIndex, visited, workers,
                   saveOnlySuccess, batchSaveSize, found, inflight, dropped,
                   processedCount, successCount, savedCount,
                   inserted, processedSinceReset, pageClosed, workerPage,
                   chunkPage, openPages, swapping, pageFault,
                   abortSeen>>

\* end of a sub-batch: what is left in the buffer is flushed; with an empty
\* buffer the abort flag is read at once
JobBatchEnd ==
    /\ rpc = "batchEnd"
    /\ IF buffer # <<>>
       THEN /\ StartInsert(SpliceTaken(buffer, Len(buffer)),
                           SpliceRest(buffer, Len(buffer)), rowlog, "final")
            /\ UNCHANGED <<rb, rk>>
       ELSE /\ AbortCheck
            /\ UNCHANGED <<buffer, flushing, flushKind, attempt, insertCall, rowlog>>
    /\ UNCHANGED <<abortRequested, orchVars, fetchVars, variant, digits, envStart,
                   envEnd, batchSize, startIndex, endIndex, visited, workers,
                   saveOnlySuccess, batchSaveSize, found, inflight, dropped, processedCount, successCount, savedCount,
                   inserted, processedSinceReset, pageClosed, workerPage,
                   chunkPage, openPages, swapping,
                   pageFault, abortSeen>>

\* i stepped and the loop test of server.js
NextItem ==
    LET ni == IF variant = "v1" \/ startIndex <= endIndex THEN rb + 1 ELSE rb - 1
    IN /\ rb' = ni
       /\ rpc' = IF LoopTest(ni) THEN "item" ELSE "returned"

\* server.js: the try block of one pass of the loop: browser.newPage() raises
\* (page stays null, the finally only waits), the page set-up raises (caught,
\* the finally closes the page), or processService and saveToSupabase run.
\* saveToSupabase returns true when it skips the row or the insert succeeds
\* (stored) and false when the insert fails; processedCount++ in all three,
\* successCount++ and savedCount++ after the save only
JobItem ==
    /\ rpc = "item"
    /\ visited' = Append(visited, <<rb, ServiceNumber(rb, digits)>>)
    /\ processedCount' = processedCount + 1
    /\ \E r \in {"done", "noPage", "pageError"}, stored \in BOOLEAN :
         LET row == [num |-> rb,
                     fetch_status |-> IF rb \in found THEN "Success" ELSE "Failed"]
             shouldSave == ShouldBuffer(row)
             saved == ~shouldSave \/ stored
         IN /\ stored => (r = "done" /\ shouldSave)
            /\ pageFault' = (CASE r = "done" -> "none"
                               [] r = "noPage" -> "open"
                               [] OTHER -> "page")
            /\ IF r = "done"
               THEN /\ rowlog' = IF shouldSave
                                 THEN Submit(Produce(rowlog, row), <<row>>)
                                 ELSE Produce(rowlog, row)
                    /\ flushing' = IF shouldSave THEN <<row>> ELSE <<>>
                    /\ successCount' = successCount
                                         + (IF row.fetch_status = "Success" THEN 1 ELSE 0)
                    /\ savedCount' = savedCount
                                       + (IF saved /\ row.fetch_status = "Success"
                                          THEN 1 ELSE 0)
                    /\ inserted' = inserted + (IF stored THEN 1 ELSE 0)
               ELSE UNCHANGED <<rowlog, flushing, successCount, savedCount, inserted>>
            /\ IF r = "noPage"
               THEN NextItem
               ELSE /\ rpc' = "close"
                    /\ UNCHANGED rb
    /\ UNCHANGED <<abortRequested, orchVars, fetchVars, variant, digits, envStart,
                   envEnd, batchSize, startIndex, endIndex, rk, workers,
                   saveOnlySuccess, batchSaveSize, found, inflight, buffer, flushKind,
                   attempt, insertCall, dropped, processedSinceReset, pageClosed,
                   workerPage, chunkPage, openPages, swapping, abortSeen>>

\* server.js: `if (page) await page.close()` in the finally block, which no
\* catch guards: when it raises the error leaves the loop and the call throws
JobClose ==
    /\ rpc = "close"
    /\ flushing' = <<>>
    /\ \E ok \in BOOLEAN :
         IF ok
         THEN /\ NextItem
              /\ UNCHANGED pageFault
         ELSE /\ rpc' = "threw"
              /\ pageFault' = "close"
              /\ UNCHANGED rb
    /\ UNCHANGED <<abortRequested, orchVars, fetchVars, variant, digits, envStart,
                   envEnd, batchSize, startIndex, endIndex, rk, visited, workers,
                   saveOnlySuccess, batchSaveSize, found, inflight, buffer, flushKind, attempt, insertCall,
                   rowlog, dropped, processedCount, successCount, savedCount,
                   inserted, processedSinceReset, pageClosed, workerPage,
                   chunkPage, openPages, swapping, abortSeen>>

\* the watchdog callback of the cycle that runs the job
JobWatchdog ==
    /\ Suspended
    /\ timer[1] = "armed"
    /\ abortRequested' = TRUE
    /\ abortSeen' = TRUE
    /\ timer' = [timer EXCEPT ![1] = "grace"]
    /\ UNCHANGED <<isProcessing, watchdogTimer, status, pc, pending, pos, b, age,
                   lastCallBusy, runVars, fetchVars, workers, saveOnlySuccess, batchSaveSize, found,
                   inflight, buffer, flushing, flushKind, attempt, insertCall, rowlog,
                   dropped, processedCount, successCount, savedCount,
                   inserted, processedSinceReset, pageClosed, workerPage,
                   chunkPage, openPages, swapping, pageFault>>

\* its nested callback, 5 s later
JobGrace ==
    /\ Suspended
    /\ timer[1] = "grace"
    /\ isProcessing' = FALSE
    /\ timer' = [timer EXCEPT ![1] = "fired"]
    /\ UNCHANGED <<abortRequested, watchdogTimer, status, pc, pending, pos, b, age,
                   lastCallBusy, runVars, extVars>>

\* a trigger calls runAutomation while the job still runs: with isProcessing
\* cleared it passes the guard, sets the flag, clears the abort flag and arms
\* its own watchdog
JobOtherCycle ==
    /\ Suspended
    /\ ~isProcessing
    /\ isProcessing' = TRUE
    /\ abortRequested' = FALSE
    /\ watchdogTimer' = 2
    /\ timer' = [timer EXCEPT ![2] = "armed"]
    /\ UNCHANGED <<status, pc, pending, pos, b, age, lastCallBusy, runVars, extVars>>

\* the settings of BATCH_SIZE explored: that one, and one whose chunks hold a
\* single task
JobBatchSizes == {4, JOB_BATCH_SIZE}
\* START_INDEX / END_INDEX of the runs of server.js: both not set, or a range
\* given from its upper end
JobEnvStarts == {Unset, [set |-> TRUE, val |-> 4]}
JobEnvEnds == {Unset, [set |-> TRUE, val |-> 2]}
FoundSets == { {}, {0, 1, 7} }

InitJob ==
    /\ variant \in {"fixed", "v1", "v2"}
    /\ isProcessing = TRUE
    /\ abortRequested = FALSE
    /\ watchdogTimer = IF variant = "fixed" THEN 1 ELSE 0
    /\ status = [j \in Jobs |-> IF j = 1 THEN "PROCESSING" ELSE "NONE"]
    /\ pc = [c \in Slots |-> IF c = 1 THEN "launch" ELSE "idle"]
    /\ pending = [c \in Slots |-> IF c = 1 THEN <<1>> ELSE <<>>]
    /\ pos = [c \in Slots |-> IF c = 1 THEN 1 ELSE 0]
    /\ b = [c \in Slots |-> 0]
    /\ timer = [c \in Slots |-> IF c = 1 /\ variant = "fixed" THEN "armed" ELSE "none"]
    /\ age = [c \in Slots |-> 0]
    /\ lastCallBusy = FALSE
    /\ digits = JobDigits
    /\ envStart \in (IF variant = "fixed" THEN {Unset} ELSE JobEnvStarts)
    /\ envEnd \in (IF variant = "fixed" THEN {Unset} ELSE JobEnvEnds)
    /\ envStart.set = envEnd.set
    /\ batchSize \in JobBatchSizes
    /\ rpc = "called"
    /\ startIndex = 0
    /\ endIndex = 0
    /\ rb = 0
    /\ rk = 0
    /\ visited = <<>>
    /\ FetchIdle
    /\ workers \in (IF variant = "fixed" THEN {1, 2} ELSE {1})
    /\ saveOnlySuccess \in BOOLEAN
    /\ batchSaveSize \in (IF variant = "fixed" THEN SaveSizes ELSE {BATCH_SAVE_SIZE})
    /\ found \in FoundSets
    /\ inflight = {}
    /\ buffer = <<>>
    /\ flushing = <<>>
    /\ flushKind = "none"
    /\ attempt = 0
    /\ insertCall = NoInsert
    /\ rowlog = [n \in 0..MaxNumber(JobDigits) |-> "none"]
    /\ dropped = {}
    /\ processedCount = 0
    /\ successCount = 0
    /\ savedCount = 0
    /\ inserted = 0
    /\ processedSinceReset = [w \in 0..(workers - 1) |-> 0]
    /\ pageClosed = {}
    /\ workerPage = [w \in 0..(workers - 1) |-> w + 1]
    /\ chunkPage = workerPage
    /\ openPages = {}
    /\ swapping = {}
    /\ pageFault = "none"
    /\ abortSeen = FALSE

NextJob ==
    \/ JobStart
    \/ JobChunk
    \/ \E n \in 0..MaxNumber(JobDigits) : TaskDone(n)
    \/ \E n \in 0..MaxNumber(JobDigits) : PageOpened(n)
    \/ \E n \in 0..MaxNumber(JobDigits) : PageInstalled(n)
    \/ JobInsert
    \/ JobWait
    \/ JobBatchEnd
    \/ JobItem
    \/ JobClose
    \/ JobWatchdog
    \/ JobGrace
    \/ JobOtherCycle

SpecJob == InitJob /\ [][NextJob]_vars

\* ------------------------------------------- the minimal server (part_002)

\* const BATCH_SIZE = 10: lookups between two restarts of the browser
MIN_BATCH_SIZE == 10

\* the only invocation of runAutomation of the minimal server that can run
Cycle == 1

InitMin ==
    /\ isProcessing = FALSE
    /\ abortRequested = FALSE
    /\ watchdogTimer = 0
    /\ status = [j \in Jobs |-> "NONE"]
    /\ pc = [c \in Slots |-> "idle"]
    /\ pending = [c \in Slots |-> <<>>]
    /\ pos = [c \in Slots |-> 0]
    /\ b = [c \in Slots |-> 0]
    /\ timer = [c \in Slots |-> "none"]
    /\ age = [c \in Slots |-> 0]
    /\ lastCallBusy = FALSE
    /\ variant = "min"
    /\ digits = JobDigits
    /\ envStart = Unset
    /\ envEnd = Unset
    /\ batchSize = MIN_BATCH_SIZE
    /\ rpc = "none"
    /\ startIndex = 0
    /\ endIndex = 0
    /\ rb = 0
    /\ rk = 0
    /\ visited = <<>>
    /\ FetchIdle
    /\ JobIdle

\* what no step of the minimal server touches
MinUnchanged ==
    UNCHANGED <<abortRequested, watchdogTimer, timer, age, runVars, fetchVars,
                workers, saveOnlySuccess, batchSaveSize, found, inflight, buffer,
                flushing, flushKind, attempt, insertCall, rowlog, dropped,
                successCount, savedCount, inserted, processedSinceReset,
                pageClosed, workerPage, chunkPage, openPages, swapping, pageFault,
                abortSeen>>

\* an awaited call rejects inside runAutomation, which has no try block: the
\* promise of runAutomation rejects and nothing after the await runs
MinThrows ==
    /\ pc' = [pc EXCEPT ![Cycle] = "threw"]
    /\ UNCHANGED <<isProcessing, status, pending, pos, b, processedCount>>

\* `isProcessing = false` and the return that follows it
MinEnd ==
    /\ isProcessing' = FALSE
    /\ pc' = [pc EXCEPT ![Cycle] = "idle"]
    /\ pending' = [pending EXCEPT ![Cycle] = <<>>]
    /\ pos' = [pos EXCEPT ![Cycle] = 0]
    /\ b' = [b EXCEPT ![Cycle] = 0]
    /\ UNCHANGED processedCount

\* top of `for (const code of pendingCodes)` at position p of list l
MinLoopHead(l, p) ==
    IF p > Len(l)
    THEN MinEnd
    ELSE /\ pc' = [pc EXCEPT ![Cycle] = "markProcessing"]
         /\ pending' = [pending EXCEPT ![Cycle] = l]
         /\ pos' = [pos EXCEPT ![Cycle] = p]
         /\ UNCHANGED <<isProcessing, b, processedCount>>

\* runAutomation() called by POST /start-automation, or by the cron callback
\* (`if (!isProcessing) runAutomation()`): `if (isProcessing) return`, else
\* the flag is set and the queue is queried
MinRunAutomation ==
    /\ lastCallBusy' = isProcessing
    /\ IF isProcessing
       THEN UNCHANGED <<isProcessing, pc>>
       ELSE /\ isProcessing' = TRUE
            /\ pc' = [pc EXCEPT ![Cycle] = "getPending"]
    /\ UNCHANGED <<status, pending, pos, b, processedCount>>
    /\ MinUnchanged

\* the select of the PENDING rows settles: the rows, no data (the error of the
\* response is not read and `!pendingCodes?.length` returns), or a rejection
MinGetPending ==
    /\ pc[Cycle] = "getPending"
    /\ \E r \in {"rows", "error", "throws"} :
         IF r = "throws" THEN MinThrows
         ELSE MinLoopHead(IF r = "rows" THEN PendingFrom(1) ELSE <<>>, 1)
    /\ UNCHANGED <<status, lastCallBusy>>
    /\ MinUnchanged

\* the update to PROCESSING settles (its result is not read) and
\* processCircleCode starts with processedCount = 0 and i = startIndex
MinMarkProcessing ==
    /\ pc[Cycle] = "markProcessing"
    /\ \E r \in {"ok", "error", "throws"} :
         IF r = "throws"
         THEN /\ MinThrows
              /\ UNCHANGED status
         ELSE /\ status' = UpdateCircleCodeStatus(pending[Cycle][pos[Cycle]],
                                                  "PROCESSING", r = "ok")
              /\ pc' = [pc EXCEPT ![Cycle] = "item"]
              /\ b' = [b EXCEPT ![Cycle] = 0]
              /\ processedCount' = 0
              /\ UNCHANGED <<isProcessing, pending, pos>>
    /\ UNCHANGED lastCallBusy
    /\ MinUnchanged

\* one pass of `for (let i = startIndex; i <= endIndex; i++)`: every
\* MIN_BATCH_SIZE lookups the browser is closed and launched again and a page
\* opened, then the lookup (which catches its errors), saveToSupabase (no try
\* block), processedCount++ and the 250 ms delay; a rejection of the launch or
\* of the insert leaves processCircleCode and runAutomation
MinItem ==
    /\ pc[Cycle] = "item"
    /\ \E r \in {"done", "launchThrows", "insertThrows"} :
         /\ r = "launchThrows" => processedCount % MIN_BATCH_SIZE = 0
         /\ IF r = "done"
            THEN /\ processedCount' = processedCount + 1
                 /\ b' = [b EXCEPT ![Cycle] = @ + 1]
                 /\ pc' = [pc EXCEPT ![Cycle] =
                             IF b[Cycle] + 1 <= MaxNumber(digits)
                             THEN "item" ELSE "markCompleted"]
                 /\ UNCHANGED <<isProcessing, pending, pos>>
            ELSE /\ pc' = [pc EXCEPT ![Cycle] = "threw"]
                 /\ UNCHANGED <<isProcessing, pending, pos, b, processedCount>>
    /\ UNCHANGED <<status, lastCallBusy>>
    /\ MinUnchanged

\* the update to COMPLETED settles, then the next code or the end of the cycle
MinMarkCompleted ==
    /\ pc[Cycle] = "markCompleted"
    /\ \E r \in {"ok", "error", "throws"} :
         IF r = "throws"
         THEN /\ MinThrows
              /\ UNCHANGED status
         ELSE /\ status' = UpdateCircleCodeStatus(pending[Cycle][pos[Cycle]],
                                                  "COMPLETED", r = "ok")
              /\ MinLoopHead(pending[Cycle], pos[Cycle] + 1)
    /\ UNCHANGED lastCallBusy
    /\ MinUnchanged

NextMin ==
    \/ \E j \in Jobs : InsertJob(j)
    \/ MinRunAutomation
    \/ MinGetPending
    \/ MinMarkProcessing
    \/ MinItem
    \/ MinMarkCompleted

SpecMin == InitMin /\ [][NextMin]_vars

\* ------------------------------------------------------------------ claims

\* the step in which invocation c leaves runAutomation through its finally
Exits(c) == Active(c) /\ ~Active(c)'

\* C1: at most one invocation of runAutomation is between setting
\* isProcessing = true and the end of its finally block.
C1_SingleCycle == Cardinality({c \in Slots : Active(c)}) <= 1

\* C2: at most one row of circle_codes has status PROCESSING.
C2_OneProcessing == Cardinality({j \in Jobs : status[j] = "PROCESSING"}) <= 1

AllowedStatusChange ==
    { <<"NONE", "PENDING">>, <<"PENDING", "PROCESSING">>,
      <<"PROCESSING", "COMPLETED">>, <<"PROCESSING", "FAILED">> }

\* C3: a job's status only changes PENDING to PROCESSING, PROCESSING to
\* COMPLETED or PROCESSING to FAILED (after its row was created PENDING).
C3_StatusTransitions ==
    [][\A j \in Jobs :
         status'[j] # status[j] => <<status[j], status'[j]>> \in AllowedStatusChange]_vars

\* C4: a call of runAutomation that finds isProcessing true returns without
\* reading the queue, changing a status, arming a timer or touching
\* isProcessing or the abort flag: the step in which the latest call is first
\* seen to have read isProcessing = true changes nothing else.
C4_BusyCallIsNoOp ==
    [][(lastCallBusy' /\ ~lastCallBusy) =>
         UNCHANGED <<isProcessing, abortRequested, watchdogTimer, status, pc,
                     pending, pos, b, timer, age>>]_vars

\* C4 witness: a call has returned at the guard while a cycle was running.
C4_Witness == lastCallBusy /\ isProcessing /\ \E c \in Slots : Active(c)

\* C5: whenever an invocation leaves runAutomation, the watchdog timer it armed
\* is no longer pending, isProcessing is false and the abort flag is false.
C5_ExitResets ==
    [][\A c \in Slots :
         Exits(c) => /\ timer'[c] # "armed"
                     /\ ~isProcessing'
                     /\ ~abortRequested']_vars

\* C6: an invocation still running more than MAX_RUN_MS after it started has
\* had the abort flag set by its watchdog, and one still running more than
\* MAX_RUN_MS + 5 s after it started has had its grace callback run (which
\* leaves isProcessing false).
C6_WatchdogBoundsHang ==
    \A c \in Slots :
      /\ (Active(c) /\ age[c] > MAX_RUN_TICKS) => timer[c] \in {"grace", "fired"}
      /\ (Active(c) /\ age[c] > MAX_RUN_TICKS + GRACE_TICKS) => timer[c] = "fired"

\* the run of invocation c's current job went through every index of its range
AttemptedAll(c) == b[c] + batchSize >= RangeLen(pending[c][pos[c]])

\* C7: a job is marked COMPLETED only if its run went through every index.
C7_CompletedMeansFullRange ==
    [][\A c \in Slots :
         (pc[c] = "markCompleted" /\ pc'[c] # "markCompleted"
            /\ status'[pending[c][pos[c]]] = "COMPLETED")
         => AttemptedAll(c)]_vars

\* the step in which invocation c resumes after the catch block's status update
AfterCatch(c) == pc[c] = "markFailed" /\ pc'[c] # "markFailed"

\* C8 as stated: after the Job Runner threw for a job, the FAILED update was
\* issued for that job alone, and the cycle goes on with the next job of its
\* list whenever there is one.
C8_FailureIsolated_Original ==
    [][\A c \in Slots :
         AfterCatch(c) =>
           /\ \/ status' = [status EXCEPT ![pending[c][pos[c]]] = "FAILED"]
              \/ status' = status
           /\ pos[c] < Len(pending[c]) =>
                /\ pc'[c] = "markProcessing"
                /\ pos'[c] = pos[c] + 1
                /\ pending'[c] = pending[c]]_vars

\* C8 amended: after the Job Runner threw for a job, the FAILED update was
\* issued for that job alone (it takes effect unless the storage call fails),
\* and the cycle goes on with the next job of its list unless the list is
\* exhausted or the abort flag is set.
C8_FailureIsolated ==
    [][\A c \in Slots :
         AfterCatch(c) =>
           /\ \/ status' = [status EXCEPT ![pending[c][pos[c]]] = "FAILED"]
              \/ status' = status
           /\ (pos[c] < Len(pending[c]) /\ ~abortRequested) =>
                /\ pc'[c] = "markProcessing"
                /\ pos'[c] = pos[c] + 1
                /\ pending'[c] = pending[c]
                /\ isProcessing' = isProcessing]_vars

\* C8 witness: a cycle is starting its second job after its first one failed.
C8_Witness ==
    \E c \in Slots :
      /\ pc[c] = "markProcessing"
      /\ pos[c] = 2
      /\ status[pending[c][1]] = "FAILED"

\* every string of d digits, in lexicographic order: "00", "01", ..., "99"
RECURSIVE AllDigitStrings(_)
AllDigitStrings(d) ==
    IF d = 0 THEN << <<>> >>
    ELSE LET prev == AllDigitStrings(d - 1)
             m == Len(prev)
         IN [n \in 1..(10 * m) |->
               <<DigitChar((n - 1) \div m)>> \o prev[((n - 1) % m) + 1]]

NoOverride == ~envStart.set /\ ~envEnd.set

FullRangeVisited ==
    /\ Len(visited) = Pow10(digits)
    /\ LET all == AllDigitStrings(digits)
       IN \A n \in 1..Len(visited) : visited[n] = <<n - 1, all[n]>>

\* C9 as stated: without a range override a job run that returns has started
\* exactly 10^d lookups, for 0..10^d-1 in ascending order, each service number
\* zero-padded to d characters.
C9_FullRange_Original ==
    (rpc = "returned" /\ NoOverride) => FullRangeVisited

\* C9 amended: the same, for a run during which the abort flag was not set.
C9_FullRange ==
    (rpc = "returned" /\ NoOverride /\ ~abortRequested) => FullRangeVisited

\* C9 witness: a full run of server_fixed.js over the largest digit width.
C9_Witness ==
    /\ rpc = "returned"
    /\ NoOverride
    /\ ~abortRequested
    /\ variant = "fixed"
    /\ digits = MaxDigits
    /\ Len(visited) = Pow10(MaxDigits)

\* the indices from the clamped start to the clamped end, inclusive
ClampedRange ==
    LET lo == ClampIndex(ParseEnv(envStart, 0), digits)
        hi == ClampIndex(ParseEnv(envEnd, MaxNumber(digits)), digits)
    IN IF lo <= hi
       THEN [n \in 1..(hi - lo + 1) |-> lo + n - 1]
       ELSE [n \in 1..(lo - hi + 1) |-> lo - n + 1]

\* C10: in all three pipelines a run that is not aborted visits every index
\* between the clamped bounds, ascending when start <= end, else descending.
C10_ClampedRange ==
    (rpc = "returned" /\ ~abortRequested)
      => [n \in 1..Len(visited) |-> visited[n][1]] = ClampedRange

\* the six fields in the order of the columns
FieldAt(d, k) ==
    <<d.serviceNo, d.uniqueServiceNo, d.customerName, d.address, d.ero, d.mobile>>[k]

\* the result C11 describes: status Failed, serviceNo the lookup key
\* "{circleCode} {serviceNumber}", every other field the sentinel
IsFailureResult(d) ==
    /\ d.status = "Failed"
    /\ d.serviceNo = SAMPLE_CIRCLE \o <<" ">> \o serviceNumber
    /\ \A k \in 2..6 : FieldAt(d, k) = NotFound

\* C11 as stated: fetchServiceDetails never rejects, and whichever step of a
\* call failed (a navigation attempt, the input, the submit, a wait, the
\* evaluation), the call resolved with status Failed, serviceNo equal to the
\* lookup key and every other field 'Not Found'.
C11_FailedOnAnyError_Original ==
    /\ fpc # "rejected"
    /\ (fcall = "details" /\ fpc = "returned" /\ failed # {})
         => IsFailureResult(details)

\* the failures that fetchServiceDetails does not recover from: navigation
\* failed on every attempt, no input left to fall back on, the submit, the
\* unguarded pause, the evaluation failed on every attempt
FatalSteps == {"gotoAll", "input", "submit", "pause", "evaluateAll"}

\* C11 amended: fetchServiceDetails never rejects, and when navigation failed
\* on every attempt, or the input lookup or typing raised with no fallback
\* left, or the submit, the fixed pause or the evaluation (on every attempt)
\* raised, it resolved with status Failed, serviceNo equal to the lookup key
\* and every other field 'Not Found'; a failure of the primary input in
\* server_fixed.js, a timed-out wait and a first failed evaluation in
\* server.js are recovered from and the result is the one the parse gives.
C11_FailedOnError ==
    /\ fpc # "rejected"
    /\ (fcall = "details" /\ fpc = "returned") => details.status \in {"Success", "Failed"}
    /\ (fcall = "details" /\ fpc = "returned" /\ failed \cap FatalSteps # {})
         => IsFailureResult(details)

\* C11 witness: server_fixed.js fell back to the generic input after the
\* primary one failed, and the evaluation then raised.
C11_Witness ==
    /\ fcall = "details"
    /\ fpc = "returned"
    /\ variant = "fixed"
    /\ {"primaryInput", "evaluateAll"} \subseteq failed
    /\ details.serviceNo = Key
    /\ details.status = "Failed"

\* the rows of the parsed page that have at least 6 cells
Qualifying == {i \in 1..Len(doc) : doc[i].n >= 6}

\* C12: when fetchServiceDetails parsed a page none of whose rows has 6 cells
\* (or that has no table), it returned status Failed, serviceNo equal to the
\* lookup key and the other fields 'Not Found'; when some row has at least 6
\* cells, status is Success and the first such row supplies the fields (each
\* field whose cell is not blank is the trimmed text of that cell).
C12_ParseResult ==
    (fcall = "details" /\ fpc = "returned" /\ parsed) =>
      IF Qualifying = {}
      THEN details = FailedDetails(Key)
      ELSE LET r == CHOOSE i \in Qualifying : \A m \in Qualifying : i <= m
           IN /\ details.status = "Success"
              /\ \A k \in 1..6 :
                   k # doc[r].hole =>
                     FieldAt(details, k) =
                       (IF doc[r].letter = "b" THEN <<"b", DigitChar(k)>>
                        ELSE <<"a", DigitChar(k)>>)

\* C13: fetchBillAmount called with 'Not Found' or with the empty string issues
\* no page operation and returns 'Not Found'.
C13_SkipWithoutPageOps ==
    (fcall = "bill" /\ ukscno \in {NotFound, <<>>}) =>
      /\ pageOps = 0
      /\ fpc \in {"called", "returned"}
      /\ fpc = "returned" => bill = NotFound

\* values of the rows of the parsed bill page labelled Current Month Bill
CurrentValues ==
    {billDoc[i].amount : i \in {k \in 1..Len(billDoc) : IsCurrent(billDoc[k].label)}}

\* values of the rows labelled Total Amount Payable
TotalValues ==
    {billDoc[i].amount : i \in {k \in 1..Len(billDoc) : IsTotal(billDoc[k].label)}}

\* C14: when the parsed bill page has a Current Month Bill row and a Total
\* Amount Payable row, each with a numeric value, fetchBillAmount returned the
\* value of the Current Month Bill row, whichever row comes first.
C14_PrefersCurrentMonthBill ==
    (/\ fcall = "bill" /\ fpc = "returned" /\ parsed
     /\ CurrentValues # {} /\ TotalValues # {}
     /\ <<>> \notin (CurrentValues \cup TotalValues))
      => bill \in CurrentValues

\* C15: with SAVE_ONLY_SUCCESS active, every row passed to a storage insert
\* (on the first attempt and on every retry) has fetch status Success.
C15_OnlySuccessInserted ==
    saveOnlySuccess =>
      \A i \in 1..Len(flushing) : flushing[i].fetch_status = "Success"

\* C15 witness: under the policy a batch is on its third attempt while the row
\* of an earlier lookup was left out.
C15_Witness ==
    /\ saveOnlySuccess
    /\ variant = "fixed"
    /\ rpc = "insert"
    /\ attempt = 2
    /\ flushing # <<>>
    /\ \E n \in DOMAIN rowlog : rowlog[n] = "discarded"

\* the numbers of the range of the run
AllNums == {IndexAt(k) : k \in 1..NumIndices}

VisitedNums == {visited[i][1] : i \in 1..Len(visited)}

\* C16: after a batch failed on all 3 attempts its rows are neither in the
\* buffer nor in a later insert, the run has not thrown, and a run that was
\* not aborted still looks up every number of the range and returns with
\* every row flushed or left out by the save policy.
C16_DroppedBatchIsGone ==
    (variant = "fixed" /\ dropped # {}) =>
      /\ \A n \in dropped :
           /\ n \notin Nums(buffer)
           /\ n \notin Nums(flushing)
           /\ rowlog[n] = "submitted"
      /\ rpc # "threw"
      /\ (rpc = "returned" /\ ~abortSeen) =>
           /\ VisitedNums = AllNums
           /\ Len(visited) = NumIndices
           /\ buffer = <<>>
           /\ \A n \in AllNums : rowlog[n] \in {"submitted", "discarded"}

\* C16 witness: a run in which a batch was dropped has gone through the whole
\* range and returned.
C16_Witness ==
    /\ variant = "fixed"
    /\ dropped # {}
    /\ rpc = "returned"
    /\ ~abortSeen
    /\ Len(visited) = NumIndices
    /\ \E n \in AllNums : n \notin dropped /\ rowlog[n] = "submitted"

\* C17: every row a lookup produced was either left out by the save policy or
\* pushed once and then passed on in one batch: no row is pushed twice or is in
\* two batches, the buffer holds exactly the rows pushed and not yet flushed,
\* and when the run returns the buffer is empty.
C17_EachRowOnce ==
    variant = "fixed" =>
      /\ \A n \in DOMAIN rowlog : rowlog[n] \notin {"dup", "resubmitted"}
      /\ \A n \in VisitedNums \ inflight : rowlog[n] # "none"
      /\ \A n \in DOMAIN rowlog : rowlog[n] = "discarded" => saveOnlySuccess
      /\ Nums(buffer) = {n \in DOMAIN rowlog : rowlog[n] = "buffered"}
      /\ Cardinality(Nums(buffer)) = Len(buffer)
      /\ rpc = "returned" => buffer = <<>>

\* C17 witness: a run has returned with rows left out, rows flushed when the
\* buffer filled up and rows flushed at the end of a sub-batch.
C17_Witness ==
    /\ variant = "fixed"
    /\ rpc = "returned"
    /\ Len(visited) = NumIndices
    /\ \E n \in AllNums : rowlog[n] = "discarded"
    /\ rowlog[0] = "submitted"
    /\ rowlog[7] = "submitted"

\* C18: once the abort flag has been set during a run of processCircleCode,
\* the run starts no further sub-batch.
C18_NoSubBatchAfterAbort ==
    [][abortSeen => ~(rpc' = "chunk" /\ rb' # rb)]_vars

\* C19: a page-level failure met by an item (the page cannot be opened, set up
\* or closed, or fails during the lookup) does not make the run throw, and the
\* item is counted.
C19_PageFailureConfined ==
    pageFault \notin {"none", "pool"} =>
      /\ rpc # "threw"
      /\ variant # "fixed" => processedCount = Len(visited)

\* C20: with a single worker page at most one lookup is in flight.
C20_SinglePageInOrder ==
    workers = 1 => Cardinality(inflight) <= 1

\* C21: at every instant at most one browser launched by processCircleCode is
\* open.
C21_OneBrowser == Cardinality({c \in Slots : BrowserOpen(c)}) <= 1

\* C22: within a lookup fetchBillAmount is called only once
\* fetchServiceDetails has resolved, only with status Success and with the
\* unique service number it gave; a result whose status is not Success has
\* billAmount 'Not Found'.
C22_BillAfterSuccess ==
    /\ (fcall = "bill" /\ serviceNumber # <<>>) =>
          (details.status = "Success" /\ ukscno = details.uniqueServiceNo)
    /\ (fcall = "lookup" /\ details.status # "Success") => bill = NotFound

\* C22 witness: a lookup whose details came back Failed has its result, and
\* no page operation of fetchBillAmount was issued for it.
C22_Witness ==
    /\ fcall = "lookup"
    /\ details.status = "Failed"
    /\ parsed
    /\ bill = NotFound
    /\ billDoc = <<>>

\* C23: a chunk of lookups that leaves at least BATCH_SAVE_SIZE rows in the
\* buffer is followed by a flush before the wait and the next chunk; at the
\* end of a sub-batch the rows left in the buffer are all handed to one insert,
\* and the sub-batch ends with the buffer empty.
C23_FlushPoints ==
    [][/\ (rpc = "tasks" /\ rpc' = "wait") => Len(buffer') < batchSaveSize
       /\ (rpc = "batchEnd" /\ buffer # <<>>) =>
             (rpc' = "insert" /\ flushing' = buffer /\ buffer' = <<>>)
       /\ (variant = "fixed" /\ rpc \in {"batchEnd", "insert"}
             /\ (rb' # rb \/ rpc' = "returned")) => buffer' = <<>>]_vars

\* C23 witness: in the second sub-batch the final flush is under way with the
\* buffer empty, after a flush between two chunks.
C23_Witness ==
    /\ variant = "fixed"
    /\ rb > 0
    /\ rpc = "insert"
    /\ flushKind = "final"
    /\ buffer = <<>>
    /\ \E n \in DOMAIN rowlog : rowlog[n] = "submitted" /\ n \notin Nums(flushing)

\* C24: every bulk insert of a run of server_fixed.js carries at most
\* BATCH_SAVE_SIZE rows.
C24_BoundedInsert ==
    variant = "fixed" => Len(flushing) <= batchSaveSize

\* the delays 1500 ms, 3000 ms, ... after the first n failed attempts
LinearDelays(n) == [i \in 1..n |-> 1500 * i]

\* C25: a call of batchInsertToSupabase issues at most 3 inserts; it returns
\* true at the first insert that succeeds, having waited 1500 ms times the
\* attempt number after each failed one; it returns false only after 3 failed
\* inserts and their three waits; the run does not throw because of it.
C25_InsertRetries ==
    /\ insertCall.calls <= 3
    /\ insertCall.result = "pending" =>
          insertCall.waits = LinearDelays(insertCall.calls - 1)
    /\ insertCall.result = "true" =>
          insertCall.waits = LinearDelays(insertCall.calls - 1)
    /\ insertCall.result = "false" =>
          (insertCall.calls = 3 /\ insertCall.waits = LinearDelays(3))
    /\ insertCall.result # "none" => rpc # "threw"

\* C25 witness: a call returned true on its third insert and the run went on.
C25_Witness ==
    /\ insertCall.result = "true"
    /\ insertCall.calls = 3
    /\ rpc \in {"wait", "chunk", "tasks"}

\* C26: in server_fixed.js safeGoto issues at most 3 navigations, returns at
\* the first that succeeds, waits 1500 ms times the attempt number between a
\* failed attempt and the next, and throws only after the third failure; the
\* function that called it then resolves with the Failed result or with
\* 'Not Found' and does not reject.
C26_SafeGoto ==
    variant = "fixed" =>
      /\ navigation.calls <= 3
      /\ navigation.result \in {"pending", "true"} =>
            navigation.waits = LinearDelays(navigation.calls - 1)
      /\ navigation.result = "threw" =>
            /\ navigation.calls = 3
            /\ navigation.waits = LinearDelays(2)
            /\ fpc = "returned"
            /\ fcall = "details" => IsFailureResult(details)
            /\ fcall \in {"bill", "lookup"} => bill = NotFound
      /\ fpc # "rejected"

\* C26 witness: fetchServiceDetails of server_fixed.js has resolved after its
\* navigation failed three times.
C26_Witness ==
    /\ variant = "fixed"
    /\ fcall = "details"
    /\ fpc = "returned"
    /\ navigation.result = "threw"
    /\ navigation.waits = <<1500, 3000>>
    /\ details.status = "Failed"

\* C27: when a cycle goes on to mark the job at a position of its list
\* PROCESSING, the list is in ascending id order and every job before that
\* position has status COMPLETED or FAILED.
C27_OneAtATimeInOrder ==
    [][\A c \in Slots :
         (pc[c] # "markProcessing" /\ pc'[c] = "markProcessing") =>
           /\ \A i, j \in 1..Len(pending'[c]) :
                 i < j => pending'[c][i] < pending'[c][j]
           /\ \A i \in 1..(pos'[c] - 1) :
                 status'[pending'[c][i]] \in {"COMPLETED", "FAILED"}]_vars

\* C28: two lookups that use the same worker page are never in flight
\* together: the second does not start before the first has completed and the
\* delay after it has elapsed.
C28_DelayBetweenLookups ==
    \A n, m \in inflight : n # m => WorkerIdx(n) # WorkerIdx(m)

\* C29: when a worker page could not be opened (for the pool, for an item, or
\* to replace a page), the run of processCircleCode has not thrown.
C29_PageOpenFailureConfined ==
    pageFault \in {"pool", "open", "replace"} => rpc # "threw"

\* C30: for every setting of BATCH_SIZE that is not negative, 0 included,
\* processCircleCode eventually returns (or throws) when every call it awaits
\* settles.
C30_RunReturns == <>(rpc \in {"returned", "threw"})

\* C31: no two lookups are in flight on the same worker page: each worker page
\* is driven by at most one of the lookups that have started and not finished.
C31_OneLookupPerPage ==
    \A w \in 0..(workers - 1) :
      Cardinality({n \in inflight : WorkerIdx(n) = w}) <= 1

\* the step is the expiry callback of the watchdog armed by invocation c
ExpiryCallback(c) == timer[c] = "armed" /\ timer'[c] = "grace"

\* the step is the nested 5 s callback of the watchdog armed by invocation c
GraceCallback(c) == timer[c] = "grace" /\ timer'[c] \in {"fired", "none"}

\* C32: a watchdog callback (expiry or 5 s grace) that runs after the cycle
\* that armed it has finished changes neither isProcessing nor the abort flag.
C32_StaleWatchdogHarmless ==
    [][\A c \in Slots :
         (~Active(c) /\ (ExpiryCallback(c) \/ GraceCallback(c)))
           => /\ isProcessing' = isProcessing
              /\ abortRequested' = abortRequested]_vars

\* C33: a cycle that is executing and started less than MAX_RUN_MS ago has its
\* own watchdog timer pending, and the shared handle is neither overwritten
\* while it names the pending timer of a running cycle nor used by the finally
\* of one cycle to clear the timer of another.
C33_OwnWatchdogPending ==
    [][/\ \A c \in Slots :
            (Active(c)' /\ age'[c] < MAX_RUN_TICKS) => timer'[c] = "armed"
       /\ \A c \in Slots :
            Exits(c) => \A t \in Slots \ {c} : timer'[t] = timer[t]
       /\ (watchdogTimer' # watchdogTimer /\ watchdogTimer # 0)
            => ~(Active(watchdogTimer) /\ timer[watchdogTimer] = "armed")]_vars

\* the pages that are some worker's current page
Installed == {workerPage[w] : w \in DOMAIN workerPage}

\* the new pages whose set-up is awaited before they are installed
SwappedIn == {p[2] : p \in swapping} \ {0}

\* C34: in a run of server_fixed.js at most one page more than the pool size
\* is open, and every open page is a worker's current page or a new page that
\* is being installed in place of a closed one.
C34_PagesBounded ==
    variant = "fixed" =>
      /\ Cardinality(openPages) <= workers + 1
      /\ openPages \subseteq (Installed \cup SwappedIn)

\* `processedCount % 10 === 0` (first pipeline), `% 50` (second pipeline)
ProgressEvery == IF variant = "v1" THEN 10 ELSE 50

\* the latest item went through its try block and the progress line was logged
AtCheckpoint ==
    /\ rpc = "close"
    /\ pageFault = "none"
    /\ processedCount % ProgressEvery = 0

\* C35: in the runs of server.js, at every progress checkpoint and on return,
\* savedCount equals the number of rows that the storage insert stored.
C35_SavedCountIsStoredRows ==
    (variant \in {"v1", "v2"} /\ (AtCheckpoint \/ rpc = "returned"))
      => savedCount = inserted

\* const totalToProcess = Math.abs(endIndex - startIndex) + 1
TotalToProcess ==
    IF startIndex <= endIndex THEN endIndex - startIndex + 1
    ELSE startIndex - endIndex + 1

\* C36: in the runs of server.js, after every item
\* savedCount <= successCount <= processedCount <= totalToProcess, processedCount
\* has been incremented once per pass of the loop, and on normal return
\* processedCount equals totalToProcess.
C36_ProgressCounters ==
    (variant \in {"v1", "v2"} /\ rpc \in {"item", "close", "returned"})
      => /\ savedCount <= successCount
         /\ successCount <= processedCount
         /\ processedCount <= TotalToProcess
         /\ processedCount = Len(visited)
         /\ rpc = "returned" => processedCount = TotalToProcess

\* invocation c calls processCircleCode in this step
HandsOver(c) == pc[c] = "markProcessing" /\ pc'[c] = "launch"

\* invocation d is inside processCircleCode for job j, or about to record its end
Holds(d, j) ==
    /\ pc[d] \in {"launch", "batch", "markCompleted", "markFailed"}
    /\ pending[d][pos[d]] = j

\* C37: a job is handed to processCircleCode only when its update to
\* PROCESSING took effect and while no other invocation is running it, so that
\* no job is run twice.
C37_RunAtMostOnce ==
    [][\A c \in Slots :
         HandsOver(c) =>
           LET j == pending[c][pos[c]]
           IN /\ status'[j] = "PROCESSING"
              /\ \A d \in Slots \ {c} : ~Holds(d, j)]_vars

\* the rows that are in the buffer or in the insert that is awaited
RowsHeld == {buffer[i] : i \in 1..Len(buffer)} \cup {flushing[i] : i \in 1..Len(flushing)}

\* C38: in a run of server_fixed.js no index is looked up twice, every row
\* carries the zero-padded service number of its index, and a run that was not
\* aborted returns having looked up every index of the range once, in order.
C38_EachIndexOnce ==
    variant = "fixed" =>
      /\ \A i, j \in 1..Len(visited) : i # j => visited[i][1] # visited[j][1]
      /\ \A row \in RowsHeld :
           row.service_number = AllDigitStrings(digits)[row.num + 1]
      /\ (rpc = "returned" /\ ~abortSeen) =>
           /\ Len(visited) = TotalToProcess
           /\ \A n \in 1..Len(visited) :
                visited[n][1] = (IF startIndex <= endIndex
                                 THEN startIndex + n - 1 ELSE startIndex - n + 1)

\* C38 witness: a run over two worker pages that was not aborted has returned
\* after ten lookups, a row of a found number being held on the way.
C38_Witness ==
    /\ variant = "fixed"
    /\ rpc = "returned"
    /\ ~abortSeen
    /\ workers = 2
    /\ Len(visited) = Pow10(JobDigits)
    /\ insertCall.result = "true"

\* C39: in the minimal server isProcessing is false once a cycle has ended,
\* whether runAutomation returned or one of its awaited calls threw.
C39_MinFlagReset == pc[Cycle] \in {"idle", "threw"} => ~isProcessing

\* the orchestrator with its scheduling: the cron trigger keeps firing, every
\* awaited call of a cycle settles, timers that are due fire and time passes
SpecLive ==
    /\ Spec
    /\ WF_vars(CronTrigger)
    /\ WF_vars(Tick)
    /\ \A c \in Slots :
         /\ WF_vars(GetPending(c))
         /\ WF_vars(MarkProcessing(c))
         /\ WF_vars(Launch(c))
         /\ WF_vars(SubBatch(c))
         /\ WF_vars(MarkCompleted(c))
         /\ WF_vars(MarkFailed(c))
         /\ WF_vars(WatchdogFires(c))
         /\ WF_vars(GraceFires(c))

\* C40: every job that is PENDING eventually reaches COMPLETED or FAILED.
C40_PendingJobsFinish ==
    \A j \in Jobs :
      (status[j] = "PENDING") ~> (status[j] \in {"COMPLETED", "FAILED"})

====
